---- MODULE Spec2Model ----
\* Store contract of the retrieval plugin: DataStore.upsert / query / delete /
\* chunks / doc (src/datastore/datastore.py) and shutdown over the hnsqlite
\* provider
\* (src/datastore/providers/hnsqlite_datastore.py), with the ingestion
\* orchestrator of src/services/chunks.py and the sentence-boundary chunker of
\* src/services/chunk_sbd.py.
\*
\* One caller issues one call at a time (the store contract assumes one
\* writer): pc = "idle" -> "called" (the arguments are in req) -> "returned"
\* (the outcome is in resp) -> "idle".  The backend calls made by a handler are
\* synchronous, so a handler runs from its call to its return as one step.
\* store is the content of the backend collection, handle tells whether the
\* datastore still holds the collection (self.collection is not None), saves
\* counts the calls of save_index.
EXTENDS Integers, Sequences, FiniteSets, TLC

VARIABLES store, pc, req, resp, handle, saves, frame,
          original_redirect_uri, requests

vars == <<store, pc, req, resp, handle, saves, frame,
          original_redirect_uri, requests>>

-----------------------------------------------------------------------------
\* Optional[T]: None is the empty tuple, a present value v is <<v>>.

None == <<>>

Some(v) == <<v>>

IsNone(o) == o = <<>>

Val(o) == o[1]

Range(s) == {s[i] : i \in 1..Len(s)}

RECURSIVE SumSeq(_)
SumSeq(s) == IF s = <<>> THEN 0 ELSE s[1] + SumSeq(Tail(s))

\* s[-n:] of Python, for n >= 1
LastN(s, n) == IF Len(s) <= n THEN s ELSE SubSeq(s, Len(s) - n + 1, Len(s))

-----------------------------------------------------------------------------
\* Program constants

CHUNK_SIZE == 200

MIN_CHUNK_LENGTH_TO_EMBED == 5

MAX_NUM_CHUNKS == 10000

MAX_TOKENS == 1024

DEFAULT_TOP_K == 7

-----------------------------------------------------------------------------
\* Bounds of the model

\* documents per upsert call
MaxBatch == 2

\* queries per query call
MaxQueries == 2

\* chunks held by the store
MaxStore == 4

\* segments of a text handed to the chunker
MaxSegs == 3

\* the small target size of a chunk, in tokens
SmallChunkSize == 4

\* the embeddings requested in one call
MaxBatchSize == 3

\* tokens and characters of a record of a table
MaxRecordTokens == 5

MaxRecordChars == 6

-----------------------------------------------------------------------------
\* Date strings.  A date string names a local time t and a UTC offset off;
\* to_unix_timestamp normalises it to the instant t - off, so that two strings
\* naming the same instant compare equal.

Date(t, off) == [t |-> t, off |-> off]

to_unix_timestamp(d) == d.t - d.off

-----------------------------------------------------------------------------
\* Texts.  A text is the sequence of segments the sentence segmenter cuts it
\* into; a segment is [tok |-> its token count, len |-> its character count].
\* The empty sequence is an empty or whitespace-only text.

Seg(tok, len) == [tok |-> tok, len |-> len]

Toks(lines) == [i \in 1..Len(lines) |-> lines[i].tok]

\* len(" ".join(lines))
RECURSIVE JoinedLen(_)
JoinedLen(lines) ==
    IF lines = <<>> THEN 0
    ELSE IF Len(lines) = 1 THEN lines[1].len
    ELSE lines[1].len + 1 + JoinedLen(Tail(lines))

\* subchunk() of chunk_text_pysbd: a segment below max_tokens is yielded as it
\* is; any other segment is handed to get_text_chunks, whose result (a list of
\* strings, each longer than MIN_CHUNK_LENGTH_TO_EMBED) is unpacked as
\* (text, tokens) pairs, which raises ValueError.
subchunk_raises(segments, max_tokens) ==
    \E i \in 1..Len(segments) :
        /\ ~(segments[i].tok < max_tokens)
        /\ segments[i].len > MIN_CHUNK_LENGTH_TO_EMBED

subchunk(segments, max_tokens) ==
    SelectSeq(segments, LAMBDA s : s.tok < max_tokens)

\* The accumulation loop of chunk_text_pysbd over pieces[i..]: cur is
\* current_lines (current_tokens are its token counts), sum is
\* sum_current_tokens, res is result_chunks (result_token_counts are the token
\* sums of its chunks).  The result is <<res, cur>> at the end of the loop.
RECURSIVE sbd_loop(_, _, _, _, _, _, _)

\* The loop that carries one sentence into the next chunk, however many the
\* closed chunk had
sbd_loop_overlap_one(pieces, i, cur, sum, res, target_tokens, max_num_chunks) ==
    IF i > Len(pieces) THEN <<res, cur>>
    ELSE IF sum + (pieces[i].tok \div 2) > target_tokens
         THEN IF Len(res) + 1 >= max_num_chunks
              THEN <<Append(res, cur), <<>>>>
              ELSE sbd_loop(pieces, i + 1, Append(LastN(cur, 1), pieces[i]),
                            SumSeq(Toks(LastN(cur, 1))) + pieces[i].tok,
                            Append(res, cur), target_tokens, max_num_chunks)
         ELSE sbd_loop(pieces, i + 1, Append(cur, pieces[i]), sum + pieces[i].tok,
                       res, target_tokens, max_num_chunks)

\* The loop that closes a chunk without carrying the sentence that closed it
\* into the next
sbd_loop_drop_trigger(pieces, i, cur, sum, res, target_tokens, max_num_chunks) ==
    IF i > Len(pieces) THEN <<res, cur>>
    ELSE IF sum + (pieces[i].tok \div 2) > target_tokens
         THEN IF Len(res) + 1 >= max_num_chunks
              THEN <<Append(res, cur), <<>>>>
              ELSE sbd_loop(pieces, i + 1,
                            LastN(cur, IF Len(cur) > 10 THEN 2 ELSE 1),
                            SumSeq(Toks(LastN(cur, IF Len(cur) > 10 THEN 2 ELSE 1))),
                            Append(res, cur), target_tokens, max_num_chunks)
         ELSE sbd_loop(pieces, i + 1, Append(cur, pieces[i]), sum + pieces[i].tok,
                       res, target_tokens, max_num_chunks)

sbd_loop(pieces, i, cur, sum, res, target_tokens, max_num_chunks) ==
    IF i > Len(pieces) THEN <<res, cur>>
    ELSE LET s == pieces[i] IN
         IF sum + (s.tok \div 2) > target_tokens
         THEN LET res2    == Append(res, cur)
                  overlap == IF Len(cur) > 10 THEN 2 ELSE 1
                  cur2    == LastN(cur, overlap)
                  sum2    == SumSeq(Toks(cur2))
              IN  IF Len(res2) >= max_num_chunks
                  THEN <<res2, <<>>>>
                  ELSE sbd_loop(pieces, i + 1, Append(cur2, s), sum2 + s.tok,
                                res2, target_tokens, max_num_chunks)
         ELSE sbd_loop(pieces, i + 1, Append(cur, s), sum + s.tok,
                       res, target_tokens, max_num_chunks)

\* The end of chunk_text_pysbd: the chunk under construction is appended to
\* the chunks the loop closed; a chunk's token count is the sum of its
\* segments' token counts.
sbd_result(out, raised) ==
    [raised       |-> raised,
     chunks       |-> Append(out[1], out[2]),
     token_counts |-> [k \in 1..(Len(out[1]) + 1) |->
                         SumSeq(Toks(Append(out[1], out[2])[k]))]]

\* subchunk() is a generator: the loop asks it for segment i unless it has
\* left at the chunk cap on a segment before
subchunk_reaches(segments, i, target_tokens, max_tokens, max_num_chunks) ==
    Len(sbd_loop(subchunk(SubSeq(segments, 1, i - 1), max_tokens), 1, <<>>, 0, <<>>,
                 target_tokens, max_num_chunks)[1]) < max_num_chunks

\* chunk_text_pysbd with the chunk cap as a parameter: the chunks (each the
\* sequence of segments joined into it) and their token counts.
chunk_text_pysbd_cap(segments, target_tokens, max_tokens, max_num_chunks) ==
    sbd_result(sbd_loop(subchunk(segments, max_tokens), 1, <<>>, 0, <<>>,
                        target_tokens, max_num_chunks),
               \E i \in 1..Len(segments) :
                   /\ subchunk_raises(<<segments[i]>>, max_tokens)
                   /\ subchunk_reaches(segments, i, target_tokens, max_tokens,
                                       max_num_chunks))

chunk_text_pysbd(segments, target_tokens) ==
    chunk_text_pysbd_cap(segments, target_tokens, MAX_TOKENS, MAX_NUM_CHUNKS)

\* get_csv_chunks.  A record is a segment [tok, len]; a slice of a record has
\* the tokens its share of the record's characters holds, rounded up.

\* The slices record[i : i + max_chars] for i = start, start + max_chars, ...
RECURSIVE csv_slices(_, _, _)
csv_slices(record, max_chars, start) ==
    IF start >= record.len THEN <<>>
    ELSE <<Seg((record.tok * (IF record.len - start < max_chars
                              THEN record.len - start ELSE max_chars)
                + record.len - 1) \div record.len,
               IF record.len - start < max_chars
               THEN record.len - start ELSE max_chars)>>
         \o csv_slices(record, max_chars, start + max_chars)

\* The chunks of one record: the record when it has at most chunk_size
\* tokens, else its slices of max_chars = int(max_tokens / (token_count /
\* chars)) characters
csv_record_chunks(record, max_tokens, chunk_size) ==
    IF record.tok > chunk_size
    THEN csv_slices(record, (max_tokens * record.len) \div record.tok, 0)
    ELSE <<record>>

\* The loop of get_csv_chunks over records[i..], with CHUNK_SIZE as a
\* parameter
RECURSIVE csv_chunks_loop(_, _, _, _)
csv_chunks_loop(records, i, max_tokens, chunk_size) ==
    IF i > Len(records) THEN <<>>
    ELSE csv_record_chunks(records[i], max_tokens, chunk_size)
         \o csv_chunks_loop(records, i + 1, max_tokens, chunk_size)

\* [chunks, token_counts]
get_csv_chunks_in(records, max_tokens, chunk_size) ==
    [chunks       |-> csv_chunks_loop(records, 1, max_tokens, chunk_size),
     token_counts |-> Toks(csv_chunks_loop(records, 1, max_tokens, chunk_size))]

-----------------------------------------------------------------------------
\* Documents and chunks.
\* Document:      [id, text, metadata]
\* metadata:      [source, created_at, title], each Optional
\* DocumentChunk: [id, text, metadata (+ document_id), token_count, embedding]
\* A chunk id "{doc.id}_{i}" is the pair <<doc.id, i>>.

ChunkId(doc_id, i) == <<doc_id, i>>

\* The DocumentChunk objects numbered from 1
document_chunks_from_one(doc, r) ==
    [raised |-> r.raised,
     token_count |-> Some(SumSeq(r.token_counts)),
     chunks |-> [k \in 1..Len(r.chunks) |->
                   [id          |-> ChunkId(doc.id, k),
                    text        |-> r.chunks[k],
                    metadata    |-> [document_id |-> doc.id,
                                     source      |-> doc.metadata.source,
                                     created_at  |-> doc.metadata.created_at,
                                     title       |-> doc.metadata.title],
                    token_count |-> r.token_counts[k],
                    embedding   |-> None]]]

\* The DocumentChunk objects create_document_chunks builds from the chunker's
\* result r, numbered from 0, and the token_count it stamps on the document
document_chunks(doc, r) ==
    [raised |-> r.raised,
     token_count |-> Some(SumSeq(r.token_counts)),
     chunks |-> [k \in 1..Len(r.chunks) |->
                   [id          |-> ChunkId(doc.id, k - 1),
                    text        |-> r.chunks[k],
                    metadata    |-> [document_id |-> doc.id,
                                     source      |-> doc.metadata.source,
                                     created_at  |-> doc.metadata.created_at,
                                     title       |-> doc.metadata.title],
                    token_count |-> r.token_counts[k],
                    embedding   |-> None]]]

\* create_document_chunks that stamps the document with the token count of
\* its text, in which the sentences two chunks share count once
create_document_chunks_text_tokens(doc, chunk_token_size) ==
    IF doc.text = <<>> THEN [raised |-> FALSE, token_count |-> None, chunks |-> <<>>]
    ELSE [document_chunks(doc, chunk_text_pysbd(doc.text, chunk_token_size))
            EXCEPT !.token_count = Some(SumSeq(Toks(doc.text)))]

\* create_document_chunks: no chunk for a blank text (whose document keeps its
\* token_count, None), else one DocumentChunk per chunk of the
\* sentence-boundary chunker.  [raised, token_count, chunks]
create_document_chunks(doc, chunk_token_size) ==
    IF doc.text = <<>> THEN [raised |-> FALSE, token_count |-> None, chunks |-> <<>>]
    ELSE document_chunks(doc, chunk_text_pysbd(doc.text, chunk_token_size))

\* headerize of get_document_chunks: the text sent to the embedding service,
\* the chunk text behind its header.
headerize(chunk) ==
    [header |-> chunk.metadata.title, text |-> chunk.text]

\* The embedding service: a fixed function from a text to a vector.  Vectors
\* are points 0..2 of a line.
VecDim == 3

Embed(htext) ==
    (SumSeq(Toks(htext.text)) + (IF IsNone(htext.header) THEN 0 ELSE 1)) % VecDim

get_embeddings(texts) == [k \in 1..Len(texts) |-> Embed(texts[k])]

\* for i in range(0, len(all_chunks), EMBEDDINGS_BATCH_SIZE): embeddings.extend(...)
RECURSIVE embed_batches(_, _, _)

\* The loop that puts the embeddings of a batch before those of the batches
\* it requested earlier
embed_batches_newest_first(all_chunks, i, batch_size) ==
    IF i > Len(all_chunks) THEN <<>>
    ELSE embed_batches(all_chunks, i + batch_size, batch_size)
         \o get_embeddings(
                [k \in 1..((IF i + batch_size - 1 < Len(all_chunks)
                            THEN i + batch_size - 1 ELSE Len(all_chunks)) - i + 1) |->
                    headerize(all_chunks[i + k - 1])])

embed_batches(all_chunks, i, batch_size) ==
    IF i > Len(all_chunks) THEN <<>>
    ELSE LET last  == IF i + batch_size - 1 < Len(all_chunks)
                      THEN i + batch_size - 1 ELSE Len(all_chunks)
             batch == [k \in 1..(last - i + 1) |-> headerize(all_chunks[i + k - 1])]
         IN  get_embeddings(batch) \o embed_batches(all_chunks, i + batch_size, batch_size)

\* The batch_texts of the same loop, one list per call of get_embeddings
RECURSIVE embedding_batches(_, _, _)
embedding_batches(all_chunks, i, batch_size) ==
    IF i > Len(all_chunks) THEN <<>>
    ELSE <<[k \in 1..((IF i + batch_size - 1 < Len(all_chunks)
                       THEN i + batch_size - 1 ELSE Len(all_chunks)) - i + 1) |->
              headerize(all_chunks[i + k - 1])]>>
         \o embedding_batches(all_chunks, i + batch_size, batch_size)

EMBEDDINGS_BATCH_SIZE == 128

\* A dict in insertion order: a sequence of <<key, value>> with distinct keys.
DictKeys(d) == [k \in 1..Len(d) |-> d[k][1]]

\* d.setdefault(key, value): the first value of a key stays
DictSet_keep_first(d, key, value) ==
    IF \E k \in 1..Len(d) : d[k][1] = key THEN d
    ELSE Append(d, <<key, value>>)

DictSet(d, key, value) ==
    IF \E k \in 1..Len(d) : d[k][1] = key
    THEN [k \in 1..Len(d) |-> IF d[k][1] = key THEN <<key, value>> ELSE d[k]]
    ELSE Append(d, <<key, value>>)

\* The first loop of get_document_chunks over documents[i..]: the dict
\* chunks (document id -> positions of its chunks in all_chunks) and
\* all_chunks.  The dict holds positions because the embeddings are attached
\* to the objects of all_chunks afterwards.  raised: a chunker raised.
RECURSIVE collect_chunks(_, _, _, _, _, _)
collect_chunks(documents, i, chunk_token_size, chunks, all_chunks, raised) ==
    IF i > Len(documents)
    THEN [chunks |-> chunks, all_chunks |-> all_chunks, raised |-> raised]
    ELSE collect_chunks(documents, i + 1, chunk_token_size,
            DictSet(chunks, documents[i].id,
                    [k \in 1..Len(create_document_chunks(documents[i],
                                                         chunk_token_size).chunks) |->
                        Len(all_chunks) + k]),
            all_chunks \o create_document_chunks(documents[i], chunk_token_size).chunks,
            raised \/ create_document_chunks(documents[i], chunk_token_size).raised)

\* The second half of get_document_chunks: chunk i of all_chunks gets
\* embeddings[i]; the dict is empty when there is no chunk.
\* [raised, all_chunks, chunks]
attach_embeddings(c, embeddings) ==
    [raised     |-> c.raised,
     all_chunks |-> [k \in 1..Len(c.all_chunks) |->
                       [c.all_chunks[k] EXCEPT !.embedding = Some(embeddings[k])]],
     chunks     |->
        IF c.all_chunks = <<>> THEN <<>>
        ELSE [d \in 1..Len(c.chunks) |->
                <<c.chunks[d][1],
                  [k \in 1..Len(c.chunks[d][2]) |->
                     [c.all_chunks[c.chunks[d][2][k]]
                        EXCEPT !.embedding = Some(embeddings[c.chunks[d][2][k]])]]>>]]

embed_all(c, batch_size) == attach_embeddings(c, embed_batches(c.all_chunks, 1, batch_size))

\* get_document_chunks with the batch size as a parameter, and what it leaves
\* behind: the token_count of each document (not stamped from the document
\* whose chunker raises on) and the batches it sent to the embedding service
\* (none when there is no chunk).
\* [raised, chunks, all_chunks, token_counts, batches]
ingest(documents, chunk_token_size, c, batch_size) ==
    [raised       |-> c.raised,
     chunks       |-> embed_all(c, batch_size).chunks,
     all_chunks   |-> embed_all(c, batch_size).all_chunks,
     token_counts |-> [i \in 1..Len(documents) |->
                         IF \E j \in 1..i :
                                create_document_chunks(documents[j],
                                                       chunk_token_size).raised
                         THEN None
                         ELSE create_document_chunks(documents[i],
                                                     chunk_token_size).token_count],
     batches      |-> embedding_batches(c.all_chunks, 1, batch_size)]

get_document_chunks_in(documents, chunk_token_size, batch_size) ==
    ingest(documents, chunk_token_size,
           collect_chunks(documents, 1, chunk_token_size, <<>>, <<>>, FALSE),
           batch_size)

\* get_document_chunks: the dict document id -> chunks with embeddings
get_document_chunks(documents, chunk_token_size) ==
    embed_all(collect_chunks(documents, 1, chunk_token_size, <<>>, <<>>, FALSE),
              EMBEDDINGS_BATCH_SIZE)

-----------------------------------------------------------------------------
\* The vector backend (hnsqlite.Collection): a list of embeddings in insertion
\* order.  Embedding: [vector, text, doc_id, metadata].

EmptyDict == <<>>

\* d[key] = value of a Python dict
DictPut(d, key, value) == (key :> value) @@ d

\* d.get(key, default)
DictGet(d, key, default) == IF key \in DOMAIN d THEN d[key] ELSE default

collection_add_embeddings(coll, embeddings) == coll \o embeddings

collection_delete_all(coll) == <<>>

collection_delete_doc_ids(coll, doc_ids) ==
    SelectSeq(coll, LAMBDA e : e.doc_id \notin Range(doc_ids))

\* A filter maps a metadata key to the value it must equal, or to a dict of
\* $gte / $lte bounds; an embedding that lacks the key does not match.
filter_matches(e, hnsqlite_filter) ==
    \A key \in DOMAIN hnsqlite_filter :
        /\ ~IsNone(e.metadata[key])
        /\ IF key = "created_at"
           THEN LET cond == hnsqlite_filter[key] IN
                /\ "$gte" \in DOMAIN cond => Val(e.metadata[key]) >= cond["$gte"]
                /\ "$lte" \in DOMAIN cond => Val(e.metadata[key]) <= cond["$lte"]
           ELSE Val(e.metadata[key]) = hnsqlite_filter[key]

collection_delete_filter(coll, hnsqlite_filter) ==
    SelectSeq(coll, LAMBDA e : ~filter_matches(e, hnsqlite_filter))

Distance(u, v) == IF u >= v THEN u - v ELSE v - u

\* s with x inserted before the first element that is farther from the query
\* vector than x (nearest first, insertion order among equals)
RECURSIVE InsertByDistance(_, _, _)
InsertByDistance(s, x, vector) ==
    IF s = <<>> THEN <<x>>
    ELSE IF Distance(s[1].vector, vector) > Distance(x.vector, vector)
         THEN <<x>> \o s
         ELSE <<s[1]>> \o InsertByDistance(Tail(s), x, vector)

RECURSIVE SortByDistance(_, _)
SortByDistance(s, vector) ==
    IF s = <<>> THEN <<>>
    ELSE InsertByDistance(SortByDistance(SubSeq(s, 1, Len(s) - 1), vector),
                          s[Len(s)], vector)

\* The first k of the ranked hits, each with its distance
top_k_responses(ranked, vector, k) ==
    [i \in 1..(IF Len(ranked) < k THEN Len(ranked) ELSE k) |->
        [text     |-> ranked[i].text,
         metadata |-> ranked[i].metadata,
         distance |-> Distance(ranked[i].vector, vector)]]

\* The k nearest embeddings that match the filter, nearest first
collection_search(coll, vector, k, hnsqlite_filter) ==
    top_k_responses(
        SortByDistance(SelectSeq(coll, LAMBDA e : filter_matches(e, hnsqlite_filter)),
                       vector),
        vector, k)

-----------------------------------------------------------------------------
\* HnsqliteDataStore

\* The fields of DocumentMetadataFilter, in the order filter.dict() yields them
FilterFields == <<"document_id", "source", "start_date", "end_date">>

\* The loop of _get_hnsqlite_filter over fields[i..], hf being hnsqlite_filter
RECURSIVE hnsqlite_filter_loop(_, _, _, _)

\* The loop with an end_date that replaces the created_at condition instead
\* of adding to it
hnsqlite_filter_loop_overwrite(filter, fields, i, hf) ==
    IF i > Len(fields) THEN hf
    ELSE hnsqlite_filter_loop(filter, fields, i + 1,
            IF IsNone(filter[fields[i]]) THEN hf
            ELSE IF fields[i] = "start_date"
            THEN DictPut(hf, "created_at",
                         DictPut(DictGet(hf, "created_at", EmptyDict),
                                 "$gte", to_unix_timestamp(Val(filter[fields[i]]))))
            ELSE IF fields[i] = "end_date"
            THEN DictPut(hf, "created_at",
                         DictPut(EmptyDict,
                                 "$lte", to_unix_timestamp(Val(filter[fields[i]]))))
            ELSE DictPut(hf, fields[i], Val(filter[fields[i]])))

\* The loop without its test for None: an unset document_id or source is
\* required to equal str(None)
hnsqlite_filter_loop_keep_none(filter, fields, i, hf) ==
    IF i > Len(fields) THEN hf
    ELSE hnsqlite_filter_loop(filter, fields, i + 1,
            IF fields[i] = "start_date"
            THEN IF IsNone(filter[fields[i]]) THEN hf
                 ELSE DictPut(hf, "created_at",
                         DictPut(DictGet(hf, "created_at", EmptyDict),
                                 "$gte", to_unix_timestamp(Val(filter[fields[i]]))))
            ELSE IF fields[i] = "end_date"
            THEN IF IsNone(filter[fields[i]]) THEN hf
                 ELSE DictPut(hf, "created_at",
                         DictPut(DictGet(hf, "created_at", EmptyDict),
                                 "$lte", to_unix_timestamp(Val(filter[fields[i]]))))
            ELSE DictPut(hf, fields[i],
                         IF IsNone(filter[fields[i]]) THEN "None"
                         ELSE Val(filter[fields[i]])))

hnsqlite_filter_loop(filter, fields, i, hf) ==
    IF i > Len(fields) THEN hf
    ELSE LET field == fields[i]
             value == filter[field]
             hf2   ==
                IF IsNone(value) THEN hf
                ELSE IF field = "start_date"
                THEN DictPut(hf, "created_at",
                             DictPut(DictGet(hf, "created_at", EmptyDict),
                                     "$gte", to_unix_timestamp(Val(value))))
                ELSE IF field = "end_date"
                THEN DictPut(hf, "created_at",
                             DictPut(DictGet(hf, "created_at", EmptyDict),
                                     "$lte", to_unix_timestamp(Val(value))))
                ELSE DictPut(hf, field, Val(value))
         IN  hnsqlite_filter_loop(filter, fields, i + 1, hf2)

\* _get_hnsqlite_filter with the field order as a parameter; filter is an
\* Optional DocumentMetadataFilter
get_hnsqlite_filter_in(filter, fields) ==
    IF IsNone(filter) THEN EmptyDict
    ELSE hnsqlite_filter_loop(Val(filter), fields, 1, EmptyDict)

get_hnsqlite_filter(filter) == get_hnsqlite_filter_in(filter, FilterFields)

\* _get_hnsqlite_metadata: the metadata with created_at as a unix timestamp
\* (a None field is a key the dict does not have)
get_hnsqlite_metadata(metadata) ==
    [field \in DOMAIN metadata |->
        IF field = "created_at" /\ ~IsNone(metadata[field])
        THEN Some(to_unix_timestamp(Val(metadata[field])))
        ELSE IF field = "document_id" THEN Some(metadata[field])
        ELSE metadata[field]]

\* The embeddings _upsert builds from the dict chunks[d..], in dict order
RECURSIVE upsert_embeddings(_, _)

\* _upsert that leaves the backend doc_id of its embeddings unset
upsert_embeddings_no_doc_id(chunks, d) ==
    IF d > Len(chunks) THEN <<>>
    ELSE [k \in 1..Len(chunks[d][2]) |->
            [vector   |-> Val(chunks[d][2][k].embedding),
             text     |-> chunks[d][2][k].text,
             doc_id   |-> "",
             metadata |-> DictPut(get_hnsqlite_metadata(chunks[d][2][k].metadata),
                                  "doc_chunk_id", Some(chunks[d][2][k].id))]]
         \o upsert_embeddings(chunks, d + 1)

upsert_embeddings(chunks, d) ==
    IF d > Len(chunks) THEN <<>>
    ELSE LET doc_id     == chunks[d][1]
             chunk_list == chunks[d][2]
         IN  [k \in 1..Len(chunk_list) |->
                [vector   |-> Val(chunk_list[k].embedding),
                 text     |-> chunk_list[k].text,
                 doc_id   |-> doc_id,
                 metadata |-> DictPut(get_hnsqlite_metadata(chunk_list[k].metadata),
                                      "doc_chunk_id", Some(chunk_list[k].id))]]
             \o upsert_embeddings(chunks, d + 1)

\* _upsert that notes the document id once per chunk
provider_upsert_id_per_chunk(coll, chunks, closed) ==
    IF chunks = <<>>
    THEN [raised |-> TRUE, error |-> "missing chunks",
          store |-> coll, doc_ids |-> <<>>]
    ELSE IF closed
    THEN [raised |-> TRUE, error |-> "AttributeError",
          store |-> coll, doc_ids |-> <<>>]
    ELSE [raised  |-> FALSE, error |-> "",
          store   |-> collection_add_embeddings(coll, upsert_embeddings(chunks, 1)),
          doc_ids |-> [k \in 1..Len(upsert_embeddings(chunks, 1)) |->
                          upsert_embeddings(chunks, 1)[k].doc_id]]

\* _upsert; closed: the datastore holds no collection, so add_embeddings
\* raises AttributeError.  [raised, error, store, doc_ids]
provider_upsert(coll, chunks, closed) ==
    IF chunks = <<>>
    THEN [raised |-> TRUE, error |-> "missing chunks",
          store |-> coll, doc_ids |-> <<>>]
    ELSE IF closed
    THEN [raised |-> TRUE, error |-> "AttributeError",
          store |-> coll, doc_ids |-> <<>>]
    ELSE [raised  |-> FALSE, error |-> "",
          store   |-> collection_add_embeddings(coll, upsert_embeddings(chunks, 1)),
          doc_ids |-> DictKeys(chunks)]

\* The filter branch that applies an empty filter, which every chunk matches
delete_by_filter_match_all(coll, hnsqlite_filter) ==
    IF Cardinality(DOMAIN hnsqlite_filter) = 1
       /\ "document_id" \in DOMAIN hnsqlite_filter
    THEN [store |-> collection_delete_doc_ids(coll, <<hnsqlite_filter["document_id"]>>),
          calls |-> <<"delete_doc_ids">>]
    ELSE [store |-> collection_delete_filter(coll, hnsqlite_filter),
          calls |-> <<"delete_filter">>]

\* The filter branch of delete: nothing for an empty filter, the delete by
\* document id for a filter that holds document_id alone, else the delete by
\* filter.  calls lists the backend calls made.  [store, calls]
delete_by_filter(coll, hnsqlite_filter) ==
    IF DOMAIN hnsqlite_filter = {} THEN [store |-> coll, calls |-> <<>>]
    ELSE IF Cardinality(DOMAIN hnsqlite_filter) = 1
            /\ "document_id" \in DOMAIN hnsqlite_filter
    THEN [store |-> collection_delete_doc_ids(coll, <<hnsqlite_filter["document_id"]>>),
          calls |-> <<"delete_doc_ids">>]
    ELSE [store |-> collection_delete_filter(coll, hnsqlite_filter),
          calls |-> <<"delete_filter">>]

\* The ids branch of delete, after the filter branch f.  [raised, store, calls]
delete_by_ids(f, ids, fault) ==
    IF ~IsNone(ids) /\ Len(Val(ids)) > 0
    THEN IF fault \in {"ids", "closed"}
         THEN [raised |-> TRUE, store |-> f.store,
               calls |-> Append(f.calls, "delete_ids")]
         ELSE [raised |-> FALSE,
               store  |-> collection_delete_doc_ids(f.store, Val(ids)),
               calls  |-> Append(f.calls, "delete_ids")]
    ELSE [raised |-> FALSE, store |-> f.store, calls |-> f.calls]

\* delete whose ids branch is an elif of its filter branch
delete_some_elif(coll, ids, hnsqlite_filter, fault) ==
    IF DOMAIN hnsqlite_filter # {}
    THEN IF fault = "filter"
         THEN [raised |-> TRUE, store |-> coll,
               calls  |-> delete_by_filter(coll, hnsqlite_filter).calls]
         ELSE [raised |-> FALSE,
               store  |-> delete_by_filter(coll, hnsqlite_filter).store,
               calls  |-> delete_by_filter(coll, hnsqlite_filter).calls]
    ELSE delete_by_ids(delete_by_filter(coll, hnsqlite_filter), ids, fault)

\* delete after its delete_all branch
delete_some(coll, ids, hnsqlite_filter, fault) ==
    IF DOMAIN hnsqlite_filter # {} /\ fault \in {"filter", "closed"}
    THEN [raised |-> TRUE, store |-> coll,
          calls  |-> delete_by_filter(coll, hnsqlite_filter).calls]
    ELSE delete_by_ids(delete_by_filter(coll, hnsqlite_filter), ids, fault)

\* delete that tests delete_all after its filter and ids branches
delete_all_last(coll, ids, filter, delete_all, fault) ==
    IF delete_all = Some(TRUE)
       /\ DOMAIN get_hnsqlite_filter(filter) = {}
       /\ (IsNone(ids) \/ ids = Some(<<>>))
    THEN IF fault = "all"
         THEN [raised |-> TRUE, store |-> coll, calls |-> <<"delete_all">>]
         ELSE [raised |-> FALSE, store |-> collection_delete_all(coll),
               calls |-> <<"delete_all">>]
    ELSE delete_some(coll, ids, get_hnsqlite_filter(filter), fault)

\* delete(ids, filter, delete_all).  ids and delete_all are Optional; fault
\* names the backend call that raises in this run ("none", "all", "filter",
\* "ids"; "closed": each of them, as the datastore holds no collection), a call
\* that raises changing nothing.  [raised, store, calls]
delete(coll, ids, filter, delete_all, fault) ==
    IF delete_all = Some(TRUE)
    THEN IF fault \in {"all", "closed"}
         THEN [raised |-> TRUE, store |-> coll, calls |-> <<"delete_all">>]
         ELSE [raised |-> FALSE, store |-> collection_delete_all(coll),
               calls |-> <<"delete_all">>]
    ELSE delete_some(coll, ids, get_hnsqlite_filter(filter), fault)

\* The QueryResult with the distance as the score
query_result_distance(query, search_responses) ==
    [query   |-> query.query,
     results |-> [i \in 1..Len(search_responses) |->
        [id       |-> Val(search_responses[i].metadata.doc_chunk_id),
         score    |-> search_responses[i].distance,
         text     |-> search_responses[i].text,
         metadata |-> [f \in DOMAIN search_responses[i].metadata \ {"doc_chunk_id"} |->
                         search_responses[i].metadata[f]]]]]

\* The QueryResult _single_query builds from the search responses:
\* the chunk id is popped from the metadata, score = 1 - distance
query_result(query, search_responses) ==
    [query   |-> query.query,
     results |-> [i \in 1..Len(search_responses) |->
        [id       |-> Val(search_responses[i].metadata.doc_chunk_id),
         score    |-> 1 - search_responses[i].distance,
         text     |-> search_responses[i].text,
         metadata |-> [f \in DOMAIN search_responses[i].metadata \ {"doc_chunk_id"} |->
                         search_responses[i].metadata[f]]]]]

\* The try block without its except NoResultError clause
search_outcome_reraise(query, search_responses, noresult, fault) ==
    IF fault \/ (search_responses = <<>> /\ noresult)
    THEN [raised |-> TRUE, noresult |-> FALSE,
          result |-> [query |-> query.query, results |-> <<>>]]
    ELSE [raised |-> FALSE, noresult |-> FALSE,
          result |-> query_result(query, search_responses)]

\* The try block of _single_query.  noresult: the backend reports an empty hit
\* list by raising NoResultError (else it returns the empty list); fault: the
\* search raises another error.  [raised, noresult, result]
search_outcome(query, search_responses, noresult, fault) ==
    IF fault
    THEN [raised |-> TRUE, noresult |-> FALSE,
          result |-> [query |-> query.query, results |-> <<>>]]
    ELSE IF search_responses = <<>> /\ noresult
    THEN [raised |-> FALSE, noresult |-> TRUE,
          result |-> [query |-> query.query, results |-> <<>>]]
    ELSE [raised |-> FALSE, noresult |-> FALSE,
          result |-> query_result(query, search_responses)]

\* _single_query that searches without the filter
single_query_no_filter(coll, query, noresult, fault) ==
    search_outcome(query,
                   collection_search(coll, query.embedding, query.top_k, EmptyDict),
                   noresult, fault)

\* _single_query
single_query(coll, query, noresult, fault) ==
    search_outcome(query,
                   collection_search(coll, query.embedding, query.top_k,
                                     get_hnsqlite_filter(query.filter)),
                   noresult, fault)

\* _query: [_single_query(q) for q in queries]; fault is the position of the
\* query whose search raises (0: none).  [raised, noresult, results]
provider_query(coll, queries, noresult, fault) ==
    [raised   |-> \E i \in 1..Len(queries) :
                     single_query(coll, queries[i], noresult, fault = i).raised,
     noresult |-> {i \in 1..Len(queries) :
                     single_query(coll, queries[i], noresult, fault = i).noresult},
     results  |-> [i \in 1..Len(queries) |->
                     single_query(coll, queries[i], noresult, fault = i).result]]

-----------------------------------------------------------------------------
\* DataStore

\* query: embed the query texts in one call, then _query
query(coll, queries, noresult, fault) ==
    provider_query(coll,
        [i \in 1..Len(queries) |->
            [query     |-> queries[i].query,
             filter    |-> queries[i].filter,
             top_k     |-> queries[i].top_k,
             embedding |-> get_embeddings([j \in 1..Len(queries) |->
                              [header |-> None, text |-> queries[j].query]])[i]]],
        noresult, fault)

NoFilter == [document_id |-> None, source |-> None,
             start_date |-> None, end_date |-> None]

\* The positions of the documents of an upsert that carry a non-empty id:
\* one delete task each
DeleteTasks(documents) == {i \in 1..Len(documents) : documents[i].id # ""}

\* The delete tasks of upsert's asyncio.gather, run in the order order[k..];
\* the tasks in fails raise.  A task that raises ends alone: the others run.
RECURSIVE gather(_, _, _, _, _)

\* gather without the deletes
gather_no_delete(coll, documents, order, k, fails) == coll

\* gather that cancels the tasks still to run when one raises
gather_cancel_rest(coll, documents, order, k, fails) ==
    IF k > Len(order) \/ order[k] \in fails THEN coll
    ELSE gather(delete(coll, None,
                       Some([NoFilter EXCEPT
                               !.document_id = Some(documents[order[k]].id)]),
                       Some(FALSE), "none").store,
                documents, order, k + 1, fails)

gather(coll, documents, order, k, fails) ==
    IF k > Len(order) THEN coll
    ELSE gather(delete(coll, None,
                       Some([NoFilter EXCEPT
                               !.document_id = Some(documents[order[k]].id)]),
                       Some(FALSE),
                       IF order[k] \in fails THEN "filter" ELSE "none").store,
                documents, order, k + 1, fails)

\* upsert(documents): the deletes, the ingestion, _upsert.
\* [store, status, error, ids, delete_failed, deleted (the store after the
\* deletes), embedded]
upsert_error(failed, g, embed_fail) ==
    IF failed # {} THEN "delete"
    ELSE IF g.raised THEN "unpack"
    ELSE IF g.all_chunks # <<>> /\ embed_fail THEN "embedding"
    ELSE IF g.chunks = <<>> THEN "No useable content found in documents"
    ELSE ""

upsert_outcome(after, failed, error, u) ==
    [store  |-> IF error = "" /\ ~u.raised THEN u.store ELSE after,
     status |-> IF error = "" /\ ~u.raised THEN "ok"
                ELSE IF error \in {"delete", "embedding"} THEN "Exception"
                ELSE IF error = "" /\ u.error = "AttributeError" THEN "Exception"
                ELSE "ValueError",
     error  |-> IF error = "" /\ u.raised THEN u.error ELSE error,
     ids    |-> IF error = "" /\ ~u.raised THEN u.doc_ids ELSE <<>>,
     delete_failed |-> failed,
     deleted |-> after]

\* The <<chunk id, text>> of the chunks upsert has embedded: all_chunks,
\* unless a delete or the chunker raised before
embedded_chunks(failed, g, embed_fail) ==
    IF failed # {} \/ g.raised \/ embed_fail THEN <<>>
    ELSE [k \in 1..Len(g.all_chunks) |-> <<g.all_chunks[k].id, g.all_chunks[k].text>>]

upsert_ingest(after, failed, g, embed_fail, closed) ==
    upsert_outcome(after, failed, upsert_error(failed, g, embed_fail),
                   provider_upsert(after, g.chunks, closed))
        @@ [embedded |-> embedded_chunks(failed, g, embed_fail)]

\* upsert that looks for usable content before it deletes
upsert_check_first(coll, documents, order, fails, embed_fail, closed) ==
    upsert_ingest(IF get_document_chunks(documents, CHUNK_SIZE).chunks = <<>>
                  THEN coll
                  ELSE gather(coll, documents, order, 1, fails),
                  fails \cap Range(order),
                  get_document_chunks(documents, CHUNK_SIZE),
                  embed_fail, closed)

\* closed: the datastore holds no collection (the delete tasks all raise then)
upsert(coll, documents, order, fails, embed_fail, closed) ==
    upsert_ingest(gather(coll, documents, order, 1, fails),
                  fails \cap Range(order),
                  get_document_chunks(documents, CHUNK_SIZE),
                  embed_fail, closed)

\* The DocumentChunk with the chunk id read from the metadata but left in it
document_chunk_keep_key(e) ==
    [id       |-> Val(e.metadata.doc_chunk_id),
     text     |-> e.text,
     metadata |-> e.metadata]

\* The DocumentChunk _chunks and _doc build from a stored embedding: the chunk
\* id is popped from the metadata
document_chunk(e) ==
    [id       |-> Val(e.metadata.doc_chunk_id),
     text     |-> e.text,
     metadata |-> [f \in DOMAIN e.metadata \ {"doc_chunk_id"} |-> e.metadata[f]]]

\* The embeddings start .. start + limit - 1 of the collection, counted from
\* the newest when reverse
collection_get_embeddings(coll, start, limit, reverse) ==
    [k \in 1..(IF Len(coll) - start < limit
               THEN (IF Len(coll) > start THEN Len(coll) - start ELSE 0)
               ELSE limit) |->
        IF reverse THEN coll[Len(coll) - start - k + 1] ELSE coll[start + k]]

collection_get_embeddings_doc_ids(coll, doc_ids) ==
    SelectSeq(coll, LAMBDA e : e.doc_id \in Range(doc_ids))

\* The list of DocumentChunk of _chunks and _doc; closed: the datastore holds
\* no collection, so the backend call raises AttributeError.  [raised, results]
chunk_results(embeddings, closed) ==
    [raised  |-> closed,
     results |-> IF closed THEN <<>>
                 ELSE [k \in 1..Len(embeddings) |-> document_chunk(embeddings[k])]]

\* chunks(start, limit, reverse)
datastore_chunks(coll, start, limit, reverse, closed) ==
    chunk_results(collection_get_embeddings(coll, start, limit, reverse), closed)

\* doc(doc_id)
datastore_doc(coll, doc_id, closed) ==
    chunk_results(collection_get_embeddings_doc_ids(coll, <<doc_id>>), closed)

\* shutdown that gives up the collection only once its index is saved
shutdown_keep_on_failure(h, save_fail) ==
    IF h
    THEN [raised |-> save_fail, handle |-> save_fail, save_calls |-> 1]
    ELSE [raised |-> TRUE, handle |-> FALSE, save_calls |-> 0]

\* shutdown(): the collection is taken from the datastore, then its index is
\* saved.  h: the datastore holds the collection; save_fail: save_index raises.
\* [raised, handle, save_calls]
shutdown(h, save_fail) ==
    IF h
    THEN [raised |-> save_fail, handle |-> FALSE, save_calls |-> 1]
    ELSE [raised |-> TRUE, handle |-> FALSE, save_calls |-> 0]

\* The status the HTTP endpoints of server/main.py answer with
http_status(status) ==
    IF status = "ok" THEN 200 ELSE IF status = "ValueError" THEN 400 ELSE 500

-----------------------------------------------------------------------------
\* Inputs

T_blank == <<>>

T_short == <<Seg(1, 2)>>

T_long == <<Seg(150, 600), Seg(151, 604)>>

Texts == {T_blank, T_short, T_long}

Meta(source, created_at) ==
    [source |-> Some(source), created_at |-> Some(created_at), title |-> None]

Metadatas ==
    {Meta("email", Date(1, 0)), Meta("email", Date(2, 0)),
     Meta("file", Date(2, 0)), Meta("file", Date(4, 1))}

OneMetadata == Meta("email", Date(2, 0))

Doc(id, text, metadata) == [id |-> id, text |-> text, metadata |-> metadata]

\* Documents of the store specification: any metadata, a non-empty id
StoreDocs == {Doc(id, t, m) : id \in {"a", "b"}, t \in Texts, m \in Metadatas}

\* Documents of the batch specification: one metadata, any text under a
\* non-empty id and a short text under the empty id
BatchDocs ==
    {Doc(id, t, OneMetadata) : id \in {"a", "b"}, t \in Texts}
        \cup {Doc("", T_short, OneMetadata)}

SeqsUpTo(S, n) == UNION {[1..k -> S] : k \in 1..n}

\* /upsert-file hands upsert one document
OneDocBatches == {<<d>> : d \in StoreDocs}

Batches == SeqsUpTo(BatchDocs, MaxBatch)

Filters ==
    {[document_id |-> di, source |-> so, start_date |-> sd, end_date |-> ed] :
        di \in {None, Some("a")},
        so \in {None, Some("email")},
        sd \in {None, Some(Date(2, 0))},
        ed \in {None, Some(Date(3, 1))}}

OptFilters == {None} \cup {Some(f) : f \in Filters}

IdLists == {None, Some(<<>>), Some(<<"a">>), Some(<<"b", "a">>)}

DeleteAlls == {None, Some(FALSE), Some(TRUE)}

DeleteArgs ==
    {[ids |-> ids, filter |-> f, delete_all |-> da] :
        ids \in IdLists, f \in OptFilters, da \in DeleteAlls}

FewDeleteArgs ==
    {[ids |-> ids, filter |-> None, delete_all |-> da] :
        ids \in {None, Some(<<"a">>)}, da \in {None, Some(TRUE)}}

QueryTexts == {<<Seg(3, 12)>>, <<Seg(1, 2)>>}

QueryFilters ==
    {None} \cup {Some(f) : f \in {g \in Filters : IsNone(g.document_id)}}

Queries ==
    {[query |-> q, filter |-> f, top_k |-> k] :
        q \in QueryTexts, f \in QueryFilters, k \in {1, DEFAULT_TOP_K}}

MatchAll == [query |-> <<Seg(3, 12)>>, filter |-> None, top_k |-> DEFAULT_TOP_K]

MatchNone ==
    [query |-> <<Seg(1, 2)>>, top_k |-> DEFAULT_TOP_K,
     filter |-> Some([NoFilter EXCEPT !.start_date = Some(Date(3, 0)),
                                      !.end_date = Some(Date(3, 1))])]

\* Query lists: any first query, followed by queries that match everything or
\* nothing
QueryLists ==
    {<<q>> \o rest : q \in Queries,
                     rest \in {<<>>} \cup SeqsUpTo({MatchAll, MatchNone}, MaxQueries - 1)}

FewQueryLists == {<<MatchAll>>, <<MatchNone>>}

\* chunks(start, limit, reverse) arguments; the /chunks endpoint's default
\* limit is larger than any store
ChunksArgs ==
    {[start |-> st, limit |-> li, reverse |-> re] :
        st \in {0, 1}, li \in {1, MaxStore + 1}, re \in BOOLEAN}

OneBatchDocs == {<<d>> : d \in BatchDocs}

\* Few delete arguments, and the filter that sets no field
LifecycleDeleteArgs ==
    FewDeleteArgs
        \cup {[ids |-> None, filter |-> Some(NoFilter), delete_all |-> None]}

\* Texts for the chunker: every text of up to MaxSegs short, middle and long
\* sentences, a text of two sentences that do not fit one default chunk, a
\* text with a sentence of MAX_TOKENS tokens, and texts of one-token
\* sentences: many of them, and ten and eleven of them before a sentence too
\* long to join them
ChunkSegs == {Seg(1, 2), Seg(2, 8), Seg(9, 36)}

T_huge == <<Seg(2, 8), Seg(MAX_TOKENS, 4 * MAX_TOKENS)>>

\* the same sentence behind two that close a chunk
T_late == <<Seg(9, 36), Seg(1, 2), Seg(MAX_TOKENS, 4 * MAX_TOKENS)>>

\* a target size that lets more than ten one-token sentences into a chunk
MidChunkSize == 3 * SmallChunkSize

Ones(n) == [k \in 1..n |-> Seg(1, 4)]

T_many == Ones(2 * MidChunkSize + 4)

T_ten == Ones(10) \o <<Seg(2 * MidChunkSize, 8 * MidChunkSize), Seg(1, 4)>>

T_eleven == Ones(11) \o <<Seg(2 * MidChunkSize, 8 * MidChunkSize), Seg(1, 4)>>

ChunkTexts ==
    SeqsUpTo(ChunkSegs, MaxSegs) \cup {T_long, T_huge, T_late, T_many, T_ten, T_eleven}

\* chunk_text_pysbd arguments: the text, target_tokens and the configured
\* chunk cap
ChunkTextArgs ==
    {[segments |-> t, target_tokens |-> g, max_num_chunks |-> c] :
        t \in ChunkTexts, g \in {SmallChunkSize, MidChunkSize, CHUNK_SIZE},
        c \in {1, 2, MAX_NUM_CHUNKS}}

\* Records of a table: at least one character per token
Records ==
    {r \in {Seg(n, c) : n \in 1..MaxRecordTokens, c \in 1..MaxRecordChars} :
        r.tok <= r.len}

\* get_csv_chunks arguments: one or two records, max_tokens, and the
\* configured chunk size, which is not above max_tokens
CsvArgs ==
    {[records |-> r, max_tokens |-> m, chunk_size |-> g] :
        r \in SeqsUpTo(Records, 2), m \in {2, 3}, g \in {1, 2}}

\* A text of three sentences that fit one chunk of the default size
T_three == <<Seg(3, 12), Seg(4, 16), Seg(5, 20)>>

\* Documents for the ingestion: with and without a title; the chunker fails
\* on one of the texts
IngestDocs ==
    {[id |-> id, text |-> t,
      metadata |-> [source |-> Some("email"), created_at |-> None, title |-> ti]] :
        id \in {"a", "b"}, t \in {T_blank, T_short, T_three, T_long, T_huge},
        ti \in {None, Some("t")}}

\* get_document_chunks arguments, and the configured embeddings batch size
IngestArgs ==
    {[documents |-> d, chunk_token_size |-> g, batch_size |-> b] :
        d \in SeqsUpTo(IngestDocs, MaxBatch), g \in {SmallChunkSize, CHUNK_SIZE},
        b \in 1..MaxBatchSize}

Perms(S) ==
    {f \in [1..Cardinality(S) -> S] : \A i, j \in DOMAIN f : f[i] = f[j] => i = j}

-----------------------------------------------------------------------------
\* State machine

NoReq == [op |-> "none"]

NoResp == [status |-> "none"]

\* frame holds the local variables of a running get_text_chunks
NoFrame == [tokens |-> <<>>, chunks |-> <<>>, num_chunks |-> 0, chunk_size |-> 0]

Init ==
    /\ store = <<>>
    /\ pc = "idle"
    /\ req = NoReq
    /\ resp = NoResp
    /\ handle = TRUE
    /\ saves = 0
    /\ frame = NoFrame
    /\ original_redirect_uri = ""
    /\ requests = <<>>

NumChunks(documents) ==
    Len(collect_chunks(documents, 1, CHUNK_SIZE, <<>>, <<>>, FALSE).all_chunks)

CallUpsert(batches) ==
    /\ pc = "idle"
    /\ \E documents \in batches :
        /\ Len(store) + NumChunks(documents) <= MaxStore
        /\ req' = [op |-> "upsert", documents |-> documents]
    /\ pc' = "called"
    /\ resp' = NoResp
    /\ UNCHANGED <<store, handle, saves>>
    /\ UNCHANGED <<frame, original_redirect_uri, requests>>

CallDelete(args) ==
    /\ pc = "idle"
    /\ \E a \in args :
        req' = [op |-> "delete", ids |-> a.ids, filter |-> a.filter,
                delete_all |-> a.delete_all]
    /\ pc' = "called"
    /\ resp' = NoResp
    /\ UNCHANGED <<store, handle, saves>>
    /\ UNCHANGED <<frame, original_redirect_uri, requests>>

CallQuery(lists) ==
    /\ pc = "idle"
    /\ \E queries \in lists : req' = [op |-> "query", queries |-> queries]
    /\ pc' = "called"
    /\ resp' = NoResp
    /\ UNCHANGED <<store, handle, saves>>
    /\ UNCHANGED <<frame, original_redirect_uri, requests>>

CallChunks ==
    /\ pc = "idle"
    /\ \E a \in ChunksArgs :
        req' = [op |-> "chunks", start |-> a.start, limit |-> a.limit,
                reverse |-> a.reverse]
    /\ pc' = "called"
    /\ resp' = NoResp
    /\ UNCHANGED <<store, handle, saves>>
    /\ UNCHANGED <<frame, original_redirect_uri, requests>>

CallDoc ==
    /\ pc = "idle"
    /\ \E doc_id \in {"a", "b"} : req' = [op |-> "doc", doc_id |-> doc_id]
    /\ pc' = "called"
    /\ resp' = NoResp
    /\ UNCHANGED <<store, handle, saves>>
    /\ UNCHANGED <<frame, original_redirect_uri, requests>>

CallChunkText ==
    /\ pc = "idle"
    /\ \E a \in ChunkTextArgs :
        req' = [op |-> "chunk_text", segments |-> a.segments,
                target_tokens |-> a.target_tokens,
                max_num_chunks |-> a.max_num_chunks]
    /\ pc' = "called"
    /\ resp' = NoResp
    /\ UNCHANGED <<store, handle, saves>>
    /\ UNCHANGED <<frame, original_redirect_uri, requests>>

CallIngest ==
    /\ pc = "idle"
    /\ \E a \in IngestArgs :
        req' = [op |-> "ingest", documents |-> a.documents,
                chunk_token_size |-> a.chunk_token_size,
                batch_size |-> a.batch_size]
    /\ pc' = "called"
    /\ resp' = NoResp
    /\ UNCHANGED <<store, handle, saves>>
    /\ UNCHANGED <<frame, original_redirect_uri, requests>>

CallCsvChunks ==
    /\ pc = "idle"
    /\ \E a \in CsvArgs :
        req' = [op |-> "csv_chunks", records |-> a.records,
                max_tokens |-> a.max_tokens, chunk_size |-> a.chunk_size]
    /\ pc' = "called"
    /\ resp' = NoResp
    /\ UNCHANGED <<store, handle, saves>>
    /\ UNCHANGED <<frame, original_redirect_uri, requests>>

CsvChunksReturns(r) ==
    resp' = [status |-> "ok", chunks |-> r.chunks, token_counts |-> r.token_counts]

ChunkTextReturns(r) ==
    resp' = [status       |-> IF r.raised THEN "ValueError" ELSE "ok",
             chunks       |-> IF r.raised THEN <<>> ELSE r.chunks,
             token_counts |-> IF r.raised THEN <<>> ELSE r.token_counts]

IngestReturns(r) ==
    resp' = [status       |-> IF r.raised THEN "ValueError" ELSE "ok",
             chunks       |-> IF r.raised THEN <<>> ELSE r.chunks,
             all_chunks   |-> IF r.raised THEN <<>> ELSE r.all_chunks,
             token_counts |-> r.token_counts,
             batches      |-> IF r.raised THEN <<>> ELSE r.batches]

UpsertReturns(r, order) ==
    /\ store' = r.store
    /\ resp' = [status |-> r.status, error |-> r.error, ids |-> r.ids,
                delete_failed |-> r.delete_failed, order |-> order,
                deleted |-> r.deleted, embedded |-> r.embedded, before |-> store]

DeleteReturns(r) ==
    /\ store' = r.store
    /\ resp' = [status |-> IF r.raised THEN "Exception" ELSE "ok",
                success |-> ~r.raised, calls |-> r.calls, before |-> store]

QueryReturns(r, fault) ==
    resp' = [status   |-> IF r.raised THEN "Exception" ELSE "ok",
             fault    |-> fault,
             noresult |-> IF r.raised THEN {} ELSE r.noresult,
             results  |-> IF r.raised THEN <<>> ELSE r.results]

ChunksReturns(r) ==
    resp' = [status  |-> IF r.raised THEN "Exception" ELSE "ok",
             results |-> r.results]

ShutdownReturns(r) ==
    /\ handle' = r.handle
    /\ saves' = saves + r.save_calls
    /\ resp' = [status |-> IF r.raised THEN "Exception" ELSE "ok",
                was_open |-> handle]

\* Without the collection every delete task raises
Upsert ==
    /\ pc = "called"
    /\ req.op = "upsert"
    /\ \E order \in Perms(DeleteTasks(req.documents)),
          fails \in (IF handle THEN SUBSET DeleteTasks(req.documents)
                     ELSE {DeleteTasks(req.documents)}),
          embed_fail \in BOOLEAN :
        UpsertReturns(upsert(store, req.documents, order, fails, embed_fail, ~handle),
                      order)
    /\ pc' = "returned"
    /\ UNCHANGED <<req, handle, saves>>
    /\ UNCHANGED <<frame, original_redirect_uri, requests>>

Delete ==
    /\ pc = "called"
    /\ req.op = "delete"
    /\ \E fault \in (IF handle THEN {"none", "all", "filter", "ids"} ELSE {"closed"}) :
        DeleteReturns(delete(store, req.ids, req.filter, req.delete_all, fault))
    /\ pc' = "returned"
    /\ UNCHANGED <<req, handle, saves>>
    /\ UNCHANGED <<frame, original_redirect_uri, requests>>

\* Without the collection the first search raises
Query ==
    /\ pc = "called"
    /\ req.op = "query"
    /\ \E noresult \in BOOLEAN,
          fault \in (IF handle THEN 0..Len(req.queries) ELSE {1}) :
        QueryReturns(query(store, req.queries, noresult, fault), fault)
    /\ pc' = "returned"
    /\ UNCHANGED <<store, req, handle, saves>>
    /\ UNCHANGED <<frame, original_redirect_uri, requests>>

Chunks ==
    /\ pc = "called"
    /\ req.op = "chunks"
    /\ ChunksReturns(datastore_chunks(store, req.start, req.limit, req.reverse, ~handle))
    /\ pc' = "returned"
    /\ UNCHANGED <<store, req, handle, saves>>
    /\ UNCHANGED <<frame, original_redirect_uri, requests>>

DocChunks ==
    /\ pc = "called"
    /\ req.op = "doc"
    /\ ChunksReturns(datastore_doc(store, req.doc_id, ~handle))
    /\ pc' = "returned"
    /\ UNCHANGED <<store, req, handle, saves>>
    /\ UNCHANGED <<frame, original_redirect_uri, requests>>

ChunkText ==
    /\ pc = "called"
    /\ req.op = "chunk_text"
    /\ ChunkTextReturns(chunk_text_pysbd_cap(req.segments, req.target_tokens,
                                             MAX_TOKENS, req.max_num_chunks))
    /\ pc' = "returned"
    /\ UNCHANGED <<store, req, handle, saves>>
    /\ UNCHANGED <<frame, original_redirect_uri, requests>>

CsvChunks ==
    /\ pc = "called"
    /\ req.op = "csv_chunks"
    /\ CsvChunksReturns(get_csv_chunks_in(req.records, req.max_tokens, req.chunk_size))
    /\ pc' = "returned"
    /\ UNCHANGED <<store, req, handle, saves>>
    /\ UNCHANGED <<frame, original_redirect_uri, requests>>

Ingest ==
    /\ pc = "called"
    /\ req.op = "ingest"
    /\ IngestReturns(get_document_chunks_in(req.documents, req.chunk_token_size,
                                            req.batch_size))
    /\ pc' = "returned"
    /\ UNCHANGED <<store, req, handle, saves>>
    /\ UNCHANGED <<frame, original_redirect_uri, requests>>

\* shutdown() is a plain function: it runs from its call to its return
Shutdown ==
    /\ pc = "idle"
    /\ \E save_fail \in BOOLEAN : ShutdownReturns(shutdown(handle, save_fail))
    /\ req' = [op |-> "shutdown"]
    /\ pc' = "returned"
    /\ UNCHANGED store
    /\ UNCHANGED <<frame, original_redirect_uri, requests>>

Return ==
    /\ pc = "returned"
    /\ pc' = "idle"
    /\ req' = NoReq
    /\ resp' = NoResp
    /\ UNCHANGED <<store, handle, saves>>
    /\ UNCHANGED <<frame, original_redirect_uri, requests>>

\* One document per upsert, every delete and query argument
Next ==
    \/ CallUpsert(OneDocBatches)
    \/ CallDelete(DeleteArgs)
    \/ CallQuery(QueryLists)
    \/ CallChunks
    \/ CallDoc
    \/ Upsert
    \/ Delete
    \/ Query
    \/ Chunks
    \/ DocChunks
    \/ Return

Spec == Init /\ [][Next]_vars

\* Batches of documents, few delete and query arguments
NextBatch ==
    \/ CallUpsert(Batches)
    \/ CallDelete(FewDeleteArgs)
    \/ CallQuery(FewQueryLists)
    \/ Upsert
    \/ Delete
    \/ Query
    \/ Return

SpecBatch == Init /\ [][NextBatch]_vars

\* The life of the datastore up to and after shutdown: one document per
\* upsert, few delete and query arguments
NextLifecycle ==
    \/ CallUpsert(OneBatchDocs)
    \/ CallDelete(LifecycleDeleteArgs)
    \/ CallQuery(FewQueryLists)
    \/ CallChunks
    \/ CallDoc
    \/ Upsert
    \/ Delete
    \/ Query
    \/ Chunks
    \/ DocChunks
    \/ Shutdown
    \/ Return

SpecLifecycle == Init /\ [][NextLifecycle]_vars

\* The chunker and the ingestion on their own, with the configured target
\* size, chunk cap and embeddings batch size as inputs
NextChunk ==
    \/ CallChunkText
    \/ CallCsvChunks
    \/ CallIngest
    \/ ChunkText
    \/ CsvChunks
    \/ Ingest
    \/ Return

SpecChunk == Init /\ [][NextChunk]_vars

-----------------------------------------------------------------------------
\* The token-window chunker (services/chunk_text_simple.py), one loop
\* iteration per step.  A text is a sequence of characters; the tokenizer cuts
\* it into the longest tokens of its vocabulary and decodes by concatenation.

Chars == {"a", " ", ".", "\n"}

Vocabulary ==
    {<<"a">>, <<"a", "a">>, <<"a", ".", "a">>, <<" ">>, <<".">>, <<"\n">>}

MaxChars == 4

MIN_CHUNK_SIZE_CHARS == 350

max_of(S) == CHOOSE x \in S : \A y \in S : y <= x

\* the element of a one-element set: a value bound by a quantifier is
\* computed once, wherever it is used afterwards
the(S) == CHOOSE x \in S : TRUE

MaxTokenChars == max_of({Len(t) : t \in Vocabulary})

\* the length of the longest token of the vocabulary that starts the text
first_token(text) ==
    max_of({k \in 1..MaxTokenChars :
               k <= Len(text) /\ SubSeq(text, 1, k) \in Vocabulary})

RECURSIVE encode(_)
encode(text) ==
    IF text = <<>> THEN <<>>
    ELSE the({<<SubSeq(text, 1, n)>>
                \o the({encode(rest) :
                           rest \in {SubSeq(text, n + 1, Len(text))}}) :
              n \in {first_token(text)}})

RECURSIVE decode(_)
decode(toks) ==
    IF toks = <<>> THEN <<>> ELSE Head(toks) \o decode(Tail(toks))

isspace(text) ==
    text # <<>> /\ \A i \in DOMAIN text : text[i] \in {" ", "\n"}

rfind(text, c) ==
    LET at == {i \in DOMAIN text : text[i] = c}
    IN  IF at = {} THEN -1 ELSE (CHOOSE i \in at : \A j \in at : j <= i) - 1

\* s[:n] and s[n:] of Python, n may be negative in s[:n]
slice_to(s, n) ==
    IF n >= Len(s) THEN s
    ELSE IF n >= 0 THEN SubSeq(s, 1, n)
    ELSE SubSeq(s, 1, max_of({0, Len(s) + n}))

slice_from(s, n) == IF n >= Len(s) THEN <<>> ELSE SubSeq(s, n + 1, Len(s))

replace_newlines(text) ==
    [i \in DOMAIN text |-> IF text[i] = "\n" THEN " " ELSE text[i]]

strip(text) ==
    LET solid == {i \in DOMAIN text : text[i] \notin {" ", "\n"}}
    IN  IF solid = {} THEN <<>>
        ELSE SubSeq(text, CHOOSE i \in solid : \A j \in solid : i <= j,
                    max_of(solid))

chunk_size_of(chunk_token_size) ==
    IF IsNone(chunk_token_size) \/ Val(chunk_token_size) = 0
    THEN CHUNK_SIZE ELSE Val(chunk_token_size)

window_step_skip_keeps(f, min_chunk_size_chars, min_chunk_length_to_embed) ==
    the({IF chunk_text = <<>> \/ isspace(chunk_text)
         THEN f
         ELSE [f EXCEPT !.tokens = slice_from(f.tokens,
                                              Len(encode(chunk_text))),
                        !.num_chunks = f.num_chunks + 1] :
         chunk_text \in {decode(slice_to(f.tokens, f.chunk_size))}})

\* Lines 62-90 for a window that is not blank: the window's text is cut after
\* its last punctuation mark, appended when long enough, and the tokens the cut
\* text encodes to are dropped
window_append(f, cut, min_chunk_length_to_embed) ==
    the({[tokens |-> slice_from(f.tokens, Len(encode(cut))),
          chunks |-> IF Len(chunk_text_to_append) > min_chunk_length_to_embed
                     THEN Append(f.chunks, chunk_text_to_append)
                     ELSE f.chunks,
          num_chunks |-> f.num_chunks + 1,
          chunk_size |-> f.chunk_size] :
         chunk_text_to_append \in {strip(replace_newlines(cut))}})

window_cut(f, chunk_text, min_chunk_size_chars, min_chunk_length_to_embed) ==
    the({window_append(f,
                       IF /\ last_punctuation # -1
                          /\ last_punctuation > min_chunk_size_chars
                       THEN slice_to(chunk_text, last_punctuation + 1)
                       ELSE chunk_text,
                       min_chunk_length_to_embed) :
         last_punctuation \in
             {max_of({rfind(chunk_text, "."), rfind(chunk_text, "?"),
                      rfind(chunk_text, "!"), rfind(chunk_text, "\n")})}})

\* One iteration of the while loop on the locals f
window_step(f, min_chunk_size_chars, min_chunk_length_to_embed) ==
    the({IF chunk_text = <<>> \/ isspace(chunk_text)
         THEN [f EXCEPT !.tokens =
                          slice_from(f.tokens, Len(slice_to(f.tokens,
                                                            f.chunk_size)))]
         ELSE window_cut(f, chunk_text, min_chunk_size_chars,
                         min_chunk_length_to_embed) :
         chunk_text \in {decode(slice_to(f.tokens, f.chunk_size))}})

\* The statements after the loop: the remaining tokens make a last chunk
remaining_chunks(f, min_chunk_length_to_embed) ==
    LET remaining_text == strip(replace_newlines(decode(f.tokens)))
    IN  IF f.tokens # <<>> /\ Len(remaining_text) > min_chunk_length_to_embed
        THEN Append(f.chunks, remaining_text)
        ELSE f.chunks

WindowTexts == {<<>>} \cup SeqsUpTo(Chars, MaxChars)

WindowArgs ==
    {[text |-> t, chunk_token_size |-> c, min_chunk_size_chars |-> m,
      max_num_chunks |-> n, min_chunk_length_to_embed |-> e] :
        t \in WindowTexts, c \in {None, Some(-1), Some(1), Some(2)},
        m \in {0, MIN_CHUNK_SIZE_CHARS}, n \in {2, MAX_NUM_CHUNKS},
        e \in {1, MIN_CHUNK_LENGTH_TO_EMBED}}

\* A call of get_text_chunks with any of the arguments
InitWindow ==
    /\ store = <<>>
    /\ pc = "called"
    /\ req \in {[op |-> "get_text_chunks"] @@ a : a \in WindowArgs}
    /\ resp = NoResp
    /\ handle = TRUE
    /\ saves = 0
    /\ frame = NoFrame
    /\ original_redirect_uri = ""
    /\ requests = <<>>

\* Lines 32-49: the early return for a blank text, else the locals
GetTextChunksBegin ==
    /\ pc = "called" /\ req.op = "get_text_chunks"
    /\ IF req.text = <<>> \/ isspace(req.text)
       THEN /\ resp' = [status |-> "ok", chunks |-> <<>>, num_chunks |-> 0]
            /\ pc' = "returned"
            /\ frame' = frame
       ELSE /\ frame' = [tokens |-> encode(req.text), chunks |-> <<>>,
                         num_chunks |-> 0,
                         chunk_size |-> chunk_size_of(req.chunk_token_size)]
            /\ pc' = "loop"
            /\ resp' = resp
    /\ UNCHANGED <<store, req, handle, saves>>
    /\ UNCHANGED <<original_redirect_uri, requests>>

\* Lines 52-90: one iteration, taken while the loop condition holds
GetTextChunksIterate ==
    /\ pc = "loop"
    /\ frame.tokens # <<>> /\ frame.num_chunks < req.max_num_chunks
    /\ frame' = window_step(frame, req.min_chunk_size_chars,
                            req.min_chunk_length_to_embed)
    /\ UNCHANGED <<store, pc, req, resp, handle, saves>>
    /\ UNCHANGED <<original_redirect_uri, requests>>

\* Lines 92-101: the loop condition fails, the function returns
GetTextChunksEnd ==
    /\ pc = "loop"
    /\ ~(frame.tokens # <<>> /\ frame.num_chunks < req.max_num_chunks)
    /\ resp' = [status |-> "ok",
                chunks |-> remaining_chunks(frame,
                                            req.min_chunk_length_to_embed),
                num_chunks |-> frame.num_chunks]
    /\ frame' = NoFrame
    /\ pc' = "returned"
    /\ UNCHANGED <<store, req, handle, saves>>
    /\ UNCHANGED <<original_redirect_uri, requests>>

NextWindow ==
    \/ GetTextChunksBegin
    \/ GetTextChunksIterate
    \/ GetTextChunksEnd

\* A function that was called keeps running: every step of get_text_chunks
\* that stays possible is taken
SpecWindow ==
    /\ InitWindow
    /\ [][NextWindow]_vars
    /\ WF_vars(GetTextChunksBegin)
    /\ WF_vars(GetTextChunksIterate)
    /\ WF_vars(GetTextChunksEnd)

-----------------------------------------------------------------------------
\* The OAuth proxy (server/oauth_proxy.py).  server/main.py imports the module
\* after creating the app; the module's first statements import names from
\* server/config.py, and the endpoints exist only when that import succeeds.

\* The module-level names that server/config.py binds
ConfigNames ==
    {"HOSTNAME", "service_config", "chunk_config", "extract_metadata_config",
     "auth_tokens", "embedding_config", "plugin_auth", "ouath_config",
     "sub_access", "user_plugin_config", "api", "plugin_config"}

\* from server.config import HOSTNAME, sub_access, oauth_config / auth_tokens
ProxyImports == {"HOSTNAME", "sub_access", "oauth_config", "auth_tokens"}

\* a from-import raises ImportError for a name the module does not bind
import_from(names, bound) == names \subseteq bound

oauth_proxy_imported == import_from(ProxyImports, ConfigNames)

oauth_config == [client_id |-> "plugin-client", client_secret |-> "plugin-secret"]

GPTG_OAUTH_CLIENT_ID == "gptg-client"

GPTG_OAUTH_CLIENT_SECRET == "gptg-secret"

GTPG_REDIRECT_URL == "https://h.gpt-gateway.com/oauth/callback"

sub_access == [read |-> {"alice"}]

AipUris ==
    {"https://chat.openai.com/aip/p1/oauth/callback",
     "https://chat.openai.com/aip/p2/oauth/callback"}

OtherUris == {"https://example.org/callback"}

\* uri.startswith('https://chat.openai.com/aip/')
startswith_aip(uri) == uri \in AipUris

\* The query of an /authorize URL: for each parameter the values given, in
\* order; a value may be blank
AuthorizeQueries ==
    {[redirect_uri |-> r, client_id |-> c] :
        r \in {<<>>, <<"">>} \cup {<<u>> : u \in AipUris \cup OtherUris},
        c \in {<<>>, <<oauth_config.client_id>>, <<"other-client">>}}

\* The URL of a callback request cut at its question marks
CallbackUrls ==
    {<<"/oauth/callback">>, <<"/oauth/callback", "code=c1">>,
     <<"/oauth/callback", "code=c1", "x">>}

TokenRequests ==
    {[redirect_uri |-> u, client_id |-> c, client_secret |-> s] :
        u \in {"", "https://chat.openai.com/aip/p1/oauth/callback",
               "https://example.org/callback"},
        c \in {oauth_config.client_id, "other-client"},
        s \in {oauth_config.client_secret, "wrong-secret"}}

\* The answers of the backend token endpoint: a status and the sub of the
\* access token
BackendResponses ==
    {[status_code |-> 200, sub |-> "alice"],
     [status_code |-> 200, sub |-> "mallory"],
     [status_code |-> 401, sub |-> ""]}

MaxRequests == 2

\* parse_qs drops the blank values; a parameter left without values is absent
parse_qs(qs) ==
    [k \in DOMAIN qs |-> SelectSeq(qs[k], LAMBDA v : v # "")]

HTTPException(status_code, detail, uri) ==
    [status_code |-> status_code, detail |-> detail, location |-> <<>>,
     original_redirect_uri |-> uri]

\* authorize with replace_redirect_uri: the response and the new value of the
\* global original_redirect_uri, given its value uri
replace_redirect_uri(qs, uri) ==
    IF parse_qs(qs).redirect_uri = <<>>
    THEN HTTPException(400, "No redirect_uri in query_params", uri)
    ELSE IF parse_qs(qs).client_id = <<>>
    THEN HTTPException(400, "No client_id in query_params", uri)
    ELSE IF oauth_config.client_id # parse_qs(qs).client_id[1]
    THEN HTTPException(400, "Invalid client_id", uri)
    ELSE IF ~startswith_aip(parse_qs(qs).redirect_uri[1])
    THEN HTTPException(400, "Invalid redirect_uri",
                       parse_qs(qs).redirect_uri[1])
    ELSE [status_code |-> 307, detail |-> "",
          location |-> <<"https://auth.gpt-gateway.com/authorize",
                         [client_id |-> <<GPTG_OAUTH_CLIENT_ID>>,
                          redirect_uri |-> <<GTPG_REDIRECT_URL>>]>>,
          original_redirect_uri |-> parse_qs(qs).redirect_uri[1]]

\* callback: original_url.split("?")[1] raises IndexError for a URL without a
\* question mark
callback(url, uri) ==
    IF Len(url) < 2
    THEN [status_code |-> 500, detail |-> "IndexError", location |-> <<>>]
    ELSE [status_code |-> 307, detail |-> "", location |-> <<uri, url[2]>>]

token(token_request, uri, response) ==
    IF token_request.redirect_uri # uri
    THEN [status_code |-> 400, detail |-> "redirect_uri mismatch"]
    ELSE IF token_request.client_id # oauth_config.client_id
    THEN [status_code |-> 400, detail |-> "client_id mismatch"]
    ELSE IF token_request.client_secret # oauth_config.client_secret
    THEN [status_code |-> 400, detail |-> "client_secret mismatch"]
    ELSE IF response.status_code # 200
    THEN [status_code |-> response.status_code, detail |-> "backend"]
    ELSE IF response.sub \notin sub_access.read
    THEN [status_code |-> 403, detail |-> "Unauthorized"]
    ELSE [status_code |-> 200, detail |-> ""]

\* What a client gets when the application did not come up
NoServer == [status_code |-> 0, detail |-> "no server", location |-> <<>>]

CallAuthorize ==
    /\ pc = "idle"
    /\ Len(requests) < MaxRequests
    /\ \E q \in AuthorizeQueries : req' = [op |-> "authorize", query |-> q]
    /\ pc' = "called"
    /\ resp' = NoResp
    /\ UNCHANGED <<store, handle, saves>>
    /\ UNCHANGED <<frame, original_redirect_uri, requests>>

CallCallback ==
    /\ pc = "idle"
    /\ \E u \in CallbackUrls : req' = [op |-> "callback", url |-> u]
    /\ pc' = "called"
    /\ resp' = NoResp
    /\ UNCHANGED <<store, handle, saves>>
    /\ UNCHANGED <<frame, original_redirect_uri, requests>>

CallToken ==
    /\ pc = "idle"
    /\ \E t \in TokenRequests : req' = [op |-> "token", token_request |-> t]
    /\ pc' = "called"
    /\ resp' = NoResp
    /\ UNCHANGED <<store, handle, saves>>
    /\ UNCHANGED <<frame, original_redirect_uri, requests>>

AuthorizeReturns(r) ==
    /\ resp' = [status_code |-> r.status_code, detail |-> r.detail,
                location |-> r.location]
    /\ original_redirect_uri' = r.original_redirect_uri

Authorize ==
    /\ pc = "called" /\ req.op = "authorize"
    /\ IF oauth_proxy_imported
       THEN AuthorizeReturns(replace_redirect_uri(req.query,
                                                  original_redirect_uri))
       ELSE resp' = NoServer /\ UNCHANGED original_redirect_uri
    /\ requests' = Append(requests, req.query)
    /\ pc' = "returned"
    /\ UNCHANGED <<store, req, handle, saves, frame>>

Callback ==
    /\ pc = "called" /\ req.op = "callback"
    /\ resp' = IF oauth_proxy_imported
               THEN callback(req.url, original_redirect_uri)
               ELSE NoServer
    /\ pc' = "returned"
    /\ UNCHANGED <<store, req, handle, saves>>
    /\ UNCHANGED <<frame, original_redirect_uri, requests>>

Token ==
    /\ pc = "called" /\ req.op = "token"
    /\ \E response \in BackendResponses :
        resp' = IF oauth_proxy_imported
                THEN token(req.token_request, original_redirect_uri, response)
                ELSE NoServer
    /\ pc' = "returned"
    /\ UNCHANGED <<store, req, handle, saves>>
    /\ UNCHANGED <<frame, original_redirect_uri, requests>>

NextOAuth ==
    \/ CallAuthorize
    \/ CallCallback
    \/ CallToken
    \/ Authorize
    \/ Callback
    \/ Token
    \/ Return

SpecOAuth == Init /\ [][NextOAuth]_vars

-----------------------------------------------------------------------------
\* Properties of upsert

UpsertReturned == pc = "returned" /\ req.op = "upsert"

DocIds == {"a", "b", ""}

BatchIds(documents) == {documents[i].id : i \in 1..Len(documents)}

\* The stored chunks that carry document id D in their metadata
ChunksOf(coll, D) == SelectSeq(coll, LAMBDA e : e.metadata.document_id = Some(D))

\* The <<chunk id, text>> of stored chunks and of DocumentChunk objects
StoredAs(coll) ==
    [k \in 1..Len(coll) |-> <<Val(coll[k].metadata.doc_chunk_id), coll[k].text>>]

ChunkedAs(chunks) == [k \in 1..Len(chunks) |-> <<chunks[k].id, chunks[k].text>>]

\* The last document of the batch that carries id D
LastWithId(documents, D) ==
    documents[CHOOSE i \in 1..Len(documents) :
                /\ documents[i].id = D
                /\ \A j \in (i + 1)..Len(documents) : documents[j].id # D]

\* What this call's ingestion makes of document id D
IngestedOf(documents, D) ==
    ChunkedAs(create_document_chunks(LastWithId(documents, D), CHUNK_SIZE).chunks)

\* C1 as stated: after a successful upsert the store holds, for every document
\* id of the batch, exactly the chunks this call's ingestion produced for it,
\* and the chunks of every other document id are as they were.
C1_ReplacesEveryId ==
    (UpsertReturned /\ resp.status = "ok") =>
        /\ \A D \in BatchIds(req.documents) :
              StoredAs(ChunksOf(store, D)) = IngestedOf(req.documents, D)
        /\ \A D \in DocIds \ BatchIds(req.documents) :
              ChunksOf(store, D) = ChunksOf(resp.before, D)

\* C1 amended: after a successful upsert the store holds, for every non-empty
\* document id of the batch, exactly the chunks this call's ingestion produced
\* for it, and the chunks of every document id not in the batch are as they
\* were.
C1_ReplacesNonEmptyId ==
    (UpsertReturned /\ resp.status = "ok") =>
        /\ \A D \in BatchIds(req.documents) \ {""} :
              StoredAs(ChunksOf(store, D)) = IngestedOf(req.documents, D)
        /\ \A D \in DocIds \ BatchIds(req.documents) :
              ChunksOf(store, D) = ChunksOf(resp.before, D)

\* An upsert replaced the two chunks of a document by one, next to the
\* chunks of a document that is not in the batch
C1_Witness ==
    /\ UpsertReturned
    /\ resp.status = "ok"
    /\ \E D \in BatchIds(req.documents) \ {""} :
          /\ Len(ChunksOf(resp.before, D)) = 2
          /\ Len(ChunksOf(store, D)) = 1
    /\ \E D \in DocIds \ BatchIds(req.documents) : ChunksOf(store, D) # <<>>

\* The length of a chunk's text
ChunkLength(chunk) == JoinedLen(chunk.text)

\* The document yields a chunk longer than MIN_CHUNK_LENGTH_TO_EMBED
Usable(doc) ==
    \E k \in 1..Len(create_document_chunks(doc, CHUNK_SIZE).chunks) :
        ChunkLength(create_document_chunks(doc, CHUNK_SIZE).chunks[k])
            > MIN_CHUNK_LENGTH_TO_EMBED

NoUsableContent(documents) == \A i \in 1..Len(documents) : ~Usable(documents[i])

NoUsableContentError == "No useable content found in documents"

\* C2: when no delete and no embedding request fails, upsert fails with the
\* no-usable-content ValueError, answered with HTTP 400, exactly when no
\* document of the batch yields a chunk that passes the minimum-length
\* filter; nothing is inserted then.
C2_NoUsableContent ==
    (UpsertReturned /\ resp.delete_failed = {} /\ resp.error # "embedding") =>
        /\ NoUsableContent(req.documents) =>
              /\ resp.error = NoUsableContentError
              /\ http_status(resp.status) = 400
              /\ Len(store) <= Len(resp.before)
        /\ resp.error = NoUsableContentError => NoUsableContent(req.documents)

\* C3: when a delete task of upsert raises, every other delete task has still
\* run to completion: the chunks of a document id some task deleted without
\* raising are gone, and the chunks of the other ids of the batch are as they
\* were, in whatever order the tasks ran.
C3_DeletesIndependent ==
    (UpsertReturned /\ resp.delete_failed # {}) =>
        \A i \in DeleteTasks(req.documents) :
            IF \E j \in DeleteTasks(req.documents) \ resp.delete_failed :
                  req.documents[j].id = req.documents[i].id
            THEN ChunksOf(store, req.documents[i].id) = <<>>
            ELSE ChunksOf(store, req.documents[i].id)
                    = ChunksOf(resp.before, req.documents[i].id)

\* The task that ran first raised and a task that ran after it removed the
\* chunks of its document
C3_Witness ==
    /\ UpsertReturned
    /\ Len(resp.order) = 2
    /\ resp.delete_failed = {resp.order[1]}
    /\ ChunksOf(store, req.documents[resp.order[1]].id) # <<>>
    /\ ChunksOf(resp.before, req.documents[resp.order[2]].id) # <<>>
    /\ ChunksOf(store, req.documents[resp.order[2]].id) = <<>>

-----------------------------------------------------------------------------
\* Properties of delete

DeleteReturned == pc = "returned" /\ req.op = "delete"

\* The metadata of a chunk satisfies the DocumentMetadataFilter F: created_at
\* within the inclusive range of start_date and end_date, as instants, and
\* equality for document_id and source
Satisfies(metadata, F) ==
    /\ ~IsNone(F.document_id) => metadata.document_id = F.document_id
    /\ ~IsNone(F.source) => metadata.source = F.source
    /\ ~IsNone(F.start_date) =>
          /\ ~IsNone(metadata.created_at)
          /\ Val(metadata.created_at) >= to_unix_timestamp(Val(F.start_date))
    /\ ~IsNone(F.end_date) =>
          /\ ~IsNone(metadata.created_at)
          /\ Val(metadata.created_at) <= to_unix_timestamp(Val(F.end_date))

IsEmptyFilter(filter) == IsNone(filter) \/ filter = Some(NoFilter)

NoIds(ids) == IsNone(ids) \/ ids = Some(<<>>)

\* A delete of the filter and ids branches returned True
DeletedSome == DeleteReturned /\ resp.status = "ok" /\ req.delete_all # Some(TRUE)

\* C4: a delete with a non-empty filter and no ids that returns True removes
\* exactly the chunks that satisfy every present field of the filter and
\* leaves the others as they were.
C4_DeleteByFilter ==
    (DeletedSome /\ NoIds(req.ids) /\ ~IsEmptyFilter(req.filter)) =>
        store = SelectSeq(resp.before,
                          LAMBDA e : ~Satisfies(e.metadata, Val(req.filter)))

\* A delete with the filter {end_date: T} removed a chunk created at T and
\* kept a chunk created later
C4_Witness ==
    /\ DeletedSome
    /\ NoIds(req.ids)
    /\ ~IsNone(req.filter)
    /\ \E T \in {Date(3, 1)} :
        /\ Val(req.filter) = [NoFilter EXCEPT !.end_date = Some(T)]
        /\ \E k \in 1..Len(resp.before) :
              /\ resp.before[k].metadata.created_at = Some(to_unix_timestamp(T))
              /\ resp.before[k] \notin Range(store)
        /\ \E k \in 1..Len(store) :
              Val(store[k].metadata.created_at) > to_unix_timestamp(T)

\* C5: a delete with a non-empty ids list and a non-empty filter that returns
\* True leaves a chunk in the store if and only if the chunk neither satisfies
\* the filter nor belongs to a document id of the list.
C5_IdsOrFilter ==
    (DeletedSome /\ ~NoIds(req.ids) /\ ~IsEmptyFilter(req.filter)) =>
        store = SelectSeq(resp.before,
                    LAMBDA e : /\ ~Satisfies(e.metadata, Val(req.filter))
                               /\ Val(e.metadata.document_id) \notin Range(Val(req.ids)))

\* A delete with ids and a filter removed a chunk that only the filter names
\* and a chunk that only the ids name
C5_Witness ==
    /\ DeletedSome
    /\ ~NoIds(req.ids)
    /\ ~IsEmptyFilter(req.filter)
    /\ \E k \in 1..Len(resp.before) :
          /\ Satisfies(resp.before[k].metadata, Val(req.filter))
          /\ Val(resp.before[k].metadata.document_id) \notin Range(Val(req.ids))
          /\ resp.before[k] \notin Range(store)
    /\ \E k \in 1..Len(resp.before) :
          /\ ~Satisfies(resp.before[k].metadata, Val(req.filter))
          /\ Val(resp.before[k].metadata.document_id) \in Range(Val(req.ids))
          /\ resp.before[k] \notin Range(store)

\* C6: a delete with delete_all = True makes the delete_all call of the
\* backend and no other, whatever ids and filter it is given; when that call
\* returns, the store is empty and the delete returns True.
C6_DeleteAllShortCircuits ==
    (DeleteReturned /\ req.delete_all = Some(TRUE)) =>
        /\ resp.calls = <<"delete_all">>
        /\ resp.status = "ok" => (store = <<>> /\ resp.success)

\* A delete with delete_all = True, ids and a filter emptied a store that held
\* a chunk neither the ids nor the filter name
C6_Witness ==
    /\ DeleteReturned
    /\ req.delete_all = Some(TRUE)
    /\ ~NoIds(req.ids)
    /\ ~IsEmptyFilter(req.filter)
    /\ resp.success
    /\ store = <<>>
    /\ \E k \in 1..Len(resp.before) :
          /\ ~Satisfies(resp.before[k].metadata, Val(req.filter))
          /\ Val(resp.before[k].metadata.document_id) \notin Range(Val(req.ids))

DocumentIdFilter(D) == Some([NoFilter EXCEPT !.document_id = Some(D)])

\* A delete by a filter that holds document_id alone returned True
DeletedByDocumentId(D) ==
    DeletedSome /\ NoIds(req.ids) /\ req.filter = DocumentIdFilter(D)

\* C7: the backend doc_id of every stored chunk is its metadata document_id,
\* and a delete whose filter holds document_id = D alone makes the backend's
\* delete by document id, with the effect of delete(ids=[D]) and of the
\* backend's delete by the filter {document_id: D}: no chunk of D remains and
\* the other chunks are as they were.
C7_DocumentIdDispatch ==
    /\ \A k \in 1..Len(store) : store[k].metadata.document_id = Some(store[k].doc_id)
    /\ \A D \in DocIds :
        DeletedByDocumentId(D) =>
            /\ resp.calls = <<"delete_doc_ids">>
            /\ store = delete(resp.before, Some(<<D>>), None, None, "none").store
            /\ store = collection_delete_filter(resp.before,
                                                DictPut(EmptyDict, "document_id", D))
            /\ store = SelectSeq(resp.before,
                                 LAMBDA e : e.metadata.document_id # Some(D))

\* A delete by the filter {document_id: D} removed the chunks of D from a
\* store that also held chunks of another document
C7_Witness ==
    \E D \in DocIds :
        /\ DeletedByDocumentId(D)
        /\ ChunksOf(resp.before, D) # <<>>
        /\ ChunksOf(store, D) = <<>>
        /\ store # <<>>

-----------------------------------------------------------------------------
\* Properties of query

QueryReturned == pc = "returned" /\ req.op = "query"

Min(a, b) == IF a < b THEN a ELSE b

\* The stored chunks an Optional filter admits
Matching(coll, filter) ==
    SelectSeq(coll, LAMBDA e : IsNone(filter) \/ Satisfies(e.metadata, Val(filter)))

ReverseFields == <<"end_date", "start_date", "source", "document_id">>

\* With both dates set, the backend filter holds both bounds, whichever field
\* is translated first
BothBoundsKept(F) ==
    (~IsNone(F.start_date) /\ ~IsNone(F.end_date)) =>
        \A fields \in {FilterFields, ReverseFields} :
            get_hnsqlite_filter_in(Some(F), fields)["created_at"]
                = DictPut(DictPut(EmptyDict, "$gte", to_unix_timestamp(Val(F.start_date))),
                          "$lte", to_unix_timestamp(Val(F.end_date)))

\* The results of query i of the call that returned
ResultsOf(i) == resp.results[i].results

\* C8: every chunk a query returns satisfies the query's filter, a query
\* returns as many chunks as its top_k and the chunks that satisfy the filter
\* allow, and a filter with both dates is translated into both bounds in
\* either field order.
C8_QueryFilter ==
    (QueryReturned /\ resp.status = "ok") =>
        \A i \in 1..Len(req.queries) :
            /\ Len(ResultsOf(i)) = Min(req.queries[i].top_k,
                                       Len(Matching(store, req.queries[i].filter)))
            /\ ~IsNone(req.queries[i].filter) =>
                  /\ BothBoundsKept(Val(req.queries[i].filter))
                  /\ \A k \in 1..Len(ResultsOf(i)) :
                        Satisfies(ResultsOf(i)[k].metadata, Val(req.queries[i].filter))

\* The embedding of the text of a query
QueryVector(q) == Embed([header |-> None, text |-> q.query])

\* A query with both dates returned a chunk although a chunk outside the
\* range is nearer to the query
C8_Witness ==
    /\ QueryReturned
    /\ resp.status = "ok"
    /\ ~IsNone(req.queries[1].filter)
    /\ ~IsNone(Val(req.queries[1].filter).start_date)
    /\ ~IsNone(Val(req.queries[1].filter).end_date)
    /\ ResultsOf(1) # <<>>
    /\ \E k \in 1..Len(store) :
          /\ ~Satisfies(store[k].metadata, Val(req.queries[1].filter))
          /\ 1 - Distance(store[k].vector, QueryVector(req.queries[1]))
                > ResultsOf(1)[1].score

StoredChunkIds == {Val(store[k].metadata.doc_chunk_id) : k \in 1..Len(store)}

\* C9: a query without filter, or with a filter that sets no field, whose
\* top_k is at least the number of stored chunks returns every stored chunk.
C9_EmptyFilterMatchesAll ==
    (QueryReturned /\ resp.status = "ok") =>
        \A i \in 1..Len(req.queries) :
            (/\ IsEmptyFilter(req.queries[i].filter)
             /\ req.queries[i].top_k >= Len(store)) =>
                /\ Len(ResultsOf(i)) = Len(store)
                /\ {ResultsOf(i)[k].id : k \in 1..Len(ResultsOf(i))} = StoredChunkIds

\* A query with a filter that sets no field and a query without filter both
\* returned the three or more chunks of two documents
C9_Witness ==
    /\ QueryReturned
    /\ resp.status = "ok"
    /\ Len(req.queries) = 2
    /\ req.queries[1].filter = Some(NoFilter)
    /\ IsNone(req.queries[2].filter)
    /\ Len(store) >= 3
    /\ Cardinality({store[k].doc_id : k \in 1..Len(store)}) = 2
    /\ Len(ResultsOf(1)) = Len(store)
    /\ Len(ResultsOf(2)) = Len(store)

\* C10: a query call in which no search raises another error returns one
\* QueryResult per query, empty for the queries whose search reported no
\* result and complete for the others; a call in which a search raises
\* another error raises.
C10_NoResultIsEmpty ==
    QueryReturned =>
        /\ resp.fault = 0 =>
              /\ resp.status = "ok"
              /\ Len(resp.results) = Len(req.queries)
              /\ \A i \in 1..Len(req.queries) :
                    IF i \in resp.noresult
                    THEN ResultsOf(i) = <<>>
                    ELSE Len(ResultsOf(i))
                            = Min(req.queries[i].top_k,
                                  Len(Matching(store, req.queries[i].filter)))
        /\ resp.fault # 0 => resp.status = "Exception"

\* The search of one query reported no result and another query of the call
\* got its results
C10_Witness ==
    /\ QueryReturned
    /\ resp.status = "ok"
    /\ resp.noresult # {}
    /\ \E j \in 1..Len(req.queries) : j \notin resp.noresult /\ ResultsOf(j) # <<>>

\* The vector stored for the chunk with this id
StoredVector(id) ==
    store[CHOOSE k \in 1..Len(store) : Val(store[k].metadata.doc_chunk_id) = id].vector

\* The score a stored chunk has for query q
ScoreOf(e, q) == 1 - Distance(e.vector, QueryVector(q))

\* C11: a query returns at most top_k results, each with the score 1 minus
\* the distance of its stored vector from the query vector, nearest first and
\* none farther than a matching chunk left out; when a matching chunk has the
\* query's own vector, the first result has that vector and the score 1.
C11_ScoreOrder ==
    (QueryReturned /\ resp.status = "ok") =>
        \A i \in 1..Len(req.queries) :
            /\ Len(ResultsOf(i)) <= req.queries[i].top_k
            /\ \A k \in 1..Len(ResultsOf(i)) :
                  /\ ResultsOf(i)[k].score
                        = 1 - Distance(StoredVector(ResultsOf(i)[k].id),
                                       QueryVector(req.queries[i]))
                  /\ k > 1 => ResultsOf(i)[k - 1].score >= ResultsOf(i)[k].score
            /\ \A n \in 1..Len(store) :
                  (/\ ResultsOf(i) # <<>>
                   /\ store[n] \in Range(Matching(store, req.queries[i].filter))) =>
                      \/ Val(store[n].metadata.doc_chunk_id)
                            \in {ResultsOf(i)[k].id : k \in 1..Len(ResultsOf(i))}
                      \/ ScoreOf(store[n], req.queries[i])
                            <= ResultsOf(i)[Len(ResultsOf(i))].score
            /\ (\E n \in 1..Len(Matching(store, req.queries[i].filter)) :
                  Matching(store, req.queries[i].filter)[n].vector
                      = QueryVector(req.queries[i])) =>
                  /\ ResultsOf(i) # <<>>
                  /\ ResultsOf(i)[1].score = 1
                  /\ StoredVector(ResultsOf(i)[1].id) = QueryVector(req.queries[i])

\* A query with top_k = 1 returned, with score 1, a chunk that has the query's
\* vector and was stored after a chunk that is farther from the query
C11_Witness ==
    /\ QueryReturned
    /\ resp.status = "ok"
    /\ req.queries[1].top_k = 1
    /\ Len(ResultsOf(1)) = 1
    /\ ResultsOf(1)[1].score = 1
    /\ Len(Matching(store, req.queries[1].filter)) >= 2
    /\ Matching(store, req.queries[1].filter)[1].vector # QueryVector(req.queries[1])

-----------------------------------------------------------------------------
\* Properties of the chunk listings

ChunksReturned == pc = "returned" /\ req.op = "chunks"

DocReturned == pc = "returned" /\ req.op = "doc"

\* The metadata of a stored chunk as the caller sees it
CallerMetadata(e) == [f \in DOMAIN e.metadata \ {"doc_chunk_id"} |-> e.metadata[f]]

\* The stored chunk the k-th item of a chunks(start, limit, reverse) listing
\* stands for
ListedChunk(k) ==
    IF req.reverse THEN store[Len(store) - req.start - k + 1] ELSE store[req.start + k]

\* Item r of a result is the stored chunk e with its id as stored and without
\* the reserved key
ReturnedAs(r, e) ==
    /\ r.id = Val(e.metadata.doc_chunk_id)
    /\ r.text = e.text
    /\ "doc_chunk_id" \notin DOMAIN r.metadata
    /\ r.metadata = CallerMetadata(e)

\* C12: every chunk an upsert ingests with id X is stored under X, and query,
\* chunks() and doc() return each stored chunk with the id it was stored
\* under and with metadata that lacks the reserved key carrying the id.
C12_ChunkIdRoundTrip ==
    /\ (UpsertReturned /\ resp.status = "ok") =>
          \A D \in BatchIds(req.documents) :
              Range(IngestedOf(req.documents, D)) \subseteq Range(StoredAs(store))
    /\ (QueryReturned /\ resp.status = "ok") =>
          \A i \in 1..Len(req.queries) : \A k \in 1..Len(ResultsOf(i)) :
              \E n \in 1..Len(store) : ReturnedAs(ResultsOf(i)[k], store[n])
    /\ (ChunksReturned /\ resp.status = "ok") =>
          /\ Len(resp.results)
                = Min(req.limit,
                      IF Len(store) > req.start THEN Len(store) - req.start ELSE 0)
          /\ \A k \in 1..Len(resp.results) : ReturnedAs(resp.results[k], ListedChunk(k))
    /\ (DocReturned /\ resp.status = "ok") =>
          /\ Len(resp.results)
                = Len(SelectSeq(store, LAMBDA e : e.doc_id = req.doc_id))
          /\ \A k \in 1..Len(resp.results) :
                ReturnedAs(resp.results[k],
                           SelectSeq(store, LAMBDA e : e.doc_id = req.doc_id)[k])

\* chunks() listed, newest first, two chunks stored under different ids
C12_Witness ==
    /\ ChunksReturned
    /\ resp.status = "ok"
    /\ req.reverse
    /\ Len(resp.results) >= 2
    /\ resp.results[1].id = Val(store[Len(store) - req.start].metadata.doc_chunk_id)
    /\ resp.results[1].id # resp.results[2].id

-----------------------------------------------------------------------------
\* Properties of _upsert

\* The ids of documents[i..] in the order of their first occurrence, seen
\* being the ids met before
RECURSIVE KeyOrder(_, _, _)
KeyOrder(documents, i, seen) ==
    IF i > Len(documents) THEN <<>>
    ELSE IF documents[i].id \in seen THEN KeyOrder(documents, i + 1, seen)
    ELSE <<documents[i].id>> \o KeyOrder(documents, i + 1, seen \cup {documents[i].id})

\* The chunks passed to _upsert for the keys ids[k..], as <<chunk id, text>>
RECURSIVE PassedChunks(_, _, _)
PassedChunks(documents, ids, k) ==
    IF k > Len(ids) THEN <<>>
    ELSE IngestedOf(documents, ids[k]) \o PassedChunks(documents, ids, k + 1)

\* The entries of the store behind those the call found after its deletes
AddedEntries == SubSeq(store, Len(resp.deleted) + 1, Len(store))

\* C13: _upsert keeps every entry it finds and adds one entry per chunk of
\* its input, in input order, so that the count grows by the number of chunks
\* passed, and it returns the document ids in the key order of its input.
C13_UpsertAddsEveryChunk ==
    (UpsertReturned /\ resp.status = "ok") =>
        /\ Len(store) = Len(resp.deleted)
                        + Len(PassedChunks(req.documents,
                                           KeyOrder(req.documents, 1, {}), 1))
        /\ SubSeq(store, 1, Len(resp.deleted)) = resp.deleted
        /\ StoredAs(AddedEntries)
              = PassedChunks(req.documents, KeyOrder(req.documents, 1, {}), 1)
        /\ resp.ids = KeyOrder(req.documents, 1, {})

\* _upsert found a chunk in the store and added three chunks of two documents
C13_Witness ==
    /\ UpsertReturned
    /\ resp.status = "ok"
    /\ Len(resp.deleted) >= 1
    /\ Len(resp.ids) = 2
    /\ Len(store) = Len(resp.deleted) + 3

-----------------------------------------------------------------------------
\* Properties of shutdown

ShutdownReturned == pc = "returned" /\ req.op = "shutdown"

\* An operation other than shutdown returned that ran after the shutdown
ReturnedAfterShutdown == pc = "returned" /\ ~handle /\ req.op # "shutdown"

\* A delete that names nothing to delete: it makes no backend call
NoCriteria ==
    /\ req.op = "delete"
    /\ req.delete_all # Some(TRUE)
    /\ IsEmptyFilter(req.filter)
    /\ NoIds(req.ids)

\* An operation that returned after the shutdown left the store as it was and
\* returned nothing read from it
StoreUntouched ==
    /\ req.op \in {"upsert", "delete"} => store = resp.before
    /\ req.op \in {"query", "chunks", "doc"} => resp.results = <<>>

\* C14 as stated: the first shutdown saves the index once and leaves the
\* datastore without its collection, also when the save fails, and every
\* operation after it, a second shutdown included, fails without reading or
\* modifying the store.
C14_EveryLaterOperationFails ==
    /\ saves <= 1
    /\ ShutdownReturned => ~handle
    /\ (ShutdownReturned /\ resp.was_open) => saves = 1
    /\ (ShutdownReturned /\ ~resp.was_open) => resp.status = "Exception"
    /\ ReturnedAfterShutdown => (resp.status # "ok" /\ StoreUntouched)

\* C14: the first shutdown saves the index once and leaves the datastore
\* without its collection, also when the save fails; a second shutdown fails
\* without saving; every operation after the shutdown leaves the store unread
\* and unmodified, and fails unless it is a delete that names nothing to
\* delete, which returns True as it does before the shutdown.
C14_ShutdownOnce ==
    /\ saves <= 1
    /\ ~handle => saves = 1
    /\ ShutdownReturned => ~handle
    /\ (ShutdownReturned /\ resp.was_open) => saves = 1
    /\ (ShutdownReturned /\ ~resp.was_open) => resp.status = "Exception"
    /\ ReturnedAfterShutdown =>
          /\ StoreUntouched
          /\ resp.status = "ok" <=> NoCriteria
          /\ req.op = "delete" => (resp.calls = <<>> <=> NoCriteria)

\* A second shutdown failed after a first one whose save failed, the store
\* holding chunks
C14_Witness ==
    /\ ShutdownReturned
    /\ ~resp.was_open
    /\ resp.status = "Exception"
    /\ saves = 1
    /\ store # <<>>

-----------------------------------------------------------------------------
\* Properties of the ingestion

IngestReturned == pc = "returned" /\ req.op = "ingest"

\* The chunks the sentence-boundary chunker makes of a document's text, in
\* the chunker's order: none for a blank text
ChunkerTexts(doc, chunk_token_size) ==
    IF doc.text = <<>> THEN <<>>
    ELSE chunk_text_pysbd(doc.text, chunk_token_size).chunks

\* <<chunk id, text, document id>> of the chunks of documents[i..] as they are
\* meant to be numbered
RECURSIVE NumberedChunks(_, _, _)
NumberedChunks(documents, i, chunk_token_size) ==
    IF i > Len(documents) THEN <<>>
    ELSE [k \in 1..Len(ChunkerTexts(documents[i], chunk_token_size)) |->
            <<ChunkId(documents[i].id, k - 1),
              ChunkerTexts(documents[i], chunk_token_size)[k],
              documents[i].id>>]
         \o NumberedChunks(documents, i + 1, chunk_token_size)

\* <<chunk id, text, document id of the metadata>> of DocumentChunk objects
NumberedAs(chunks) ==
    [k \in 1..Len(chunks) |->
        <<chunks[k].id, chunks[k].text, chunks[k].metadata.document_id>>]

\* C15: the chunks of every ingested document carry the ids {document.id}_0,
\* {document.id}_1, ... without gap or duplicate in the order the chunker
\* produced them, and the document's id as document_id of their metadata.
C15_DenseChunkIds ==
    (IngestReturned /\ resp.status = "ok") =>
        /\ NumberedAs(resp.all_chunks)
              = NumberedChunks(req.documents, 1, req.chunk_token_size)
        /\ \A d \in 1..Len(resp.chunks) :
              NumberedAs(resp.chunks[d][2])
                  = NumberedChunks(<<LastWithId(req.documents, resp.chunks[d][1])>>,
                                   1, req.chunk_token_size)

\* Two documents were ingested, the first into more than one chunk
C15_Witness ==
    /\ IngestReturned
    /\ resp.status = "ok"
    /\ Len(resp.chunks) = 2
    /\ Len(resp.chunks[1][2]) >= 2
    /\ resp.chunks[1][2][2].id = ChunkId(req.documents[1].id, 1)
    /\ resp.chunks[2][2] # <<>>

\* The DocumentChunk objects made of document i of the ingested batch
ChunksOfDocument(i) ==
    SubSeq(resp.all_chunks,
           Len(NumberedChunks(SubSeq(req.documents, 1, i - 1), 1,
                              req.chunk_token_size)) + 1,
           Len(NumberedChunks(SubSeq(req.documents, 1, i), 1,
                              req.chunk_token_size)))

TokenCounts(chunks) == [k \in 1..Len(chunks) |-> chunks[k].token_count]

\* The sentences of a text fit one chunk of the target size
FitsOneChunk(text, target_tokens) == SumSeq(Toks(text)) <= target_tokens

\* C16: after the ingestion the token_count of a document with non-blank text
\* is the sum of the token_count of its chunks; a document whose sentences
\* fit one chunk has the single chunk {id}_0, whose token_count is the sum of
\* the token counts of the sentences.
C16_TokenCount ==
    (IngestReturned /\ resp.status = "ok") =>
        \A i \in 1..Len(req.documents) :
            req.documents[i].text # <<>> =>
                /\ resp.token_counts[i]
                      = Some(SumSeq(TokenCounts(ChunksOfDocument(i))))
                /\ FitsOneChunk(req.documents[i].text, req.chunk_token_size) =>
                      /\ Len(ChunksOfDocument(i)) = 1
                      /\ ChunksOfDocument(i)[1].id = ChunkId(req.documents[i].id, 0)
                      /\ ChunksOfDocument(i)[1].token_count
                            = SumSeq(Toks(req.documents[i].text))

\* A document of three sentences was ingested into one chunk behind a
\* document ingested into two
C16_Witness ==
    /\ IngestReturned
    /\ resp.status = "ok"
    /\ Len(req.documents) = 2
    /\ Len(ChunksOfDocument(1)) = 2
    /\ Len(req.documents[2].text) = 3
    /\ Len(ChunksOfDocument(2)) = 1
    /\ resp.token_counts[2] = Some(SumSeq(Toks(req.documents[2].text)))

\* The lists of a list of lists, one after the other
RECURSIVE Flatten(_)
Flatten(lists) == IF lists = <<>> THEN <<>> ELSE lists[1] \o Flatten(Tail(lists))

\* The header-prefixed texts of chunks, in their order
Headerized(chunks) == [k \in 1..Len(chunks) |-> headerize(chunks[k])]

\* C17: ingestion requests the embeddings of the chunks of a batch in
\* consecutive slices of embeddings_batch_size chunks, documents in input
\* order and chunks in chunker order, in ceil(n / embeddings_batch_size)
\* calls, and every chunk gets the vector of its own header-prefixed text.
C17_EmbeddingsInOrder ==
    (IngestReturned /\ resp.status = "ok") =>
        /\ Len(resp.batches)
              = (Len(resp.all_chunks) + req.batch_size - 1) \div req.batch_size
        /\ Flatten(resp.batches) = Headerized(resp.all_chunks)
        /\ \A b \in 1..Len(resp.batches) :
              /\ Len(resp.batches[b]) <= req.batch_size
              /\ b < Len(resp.batches) => Len(resp.batches[b]) = req.batch_size
        /\ \A k \in 1..Len(resp.all_chunks) :
              resp.all_chunks[k].embedding
                  = Some(Embed(headerize(resp.all_chunks[k])))
        /\ \A d \in 1..Len(resp.chunks) : \A k \in 1..Len(resp.chunks[d][2]) :
              resp.chunks[d][2][k].embedding
                  = Some(Embed(headerize(resp.chunks[d][2][k])))

\* Three chunks of two documents were embedded in two calls, the first two
\* chunks with different vectors
C17_Witness ==
    /\ IngestReturned
    /\ resp.status = "ok"
    /\ Len(req.documents) = 2
    /\ req.batch_size = 2
    /\ Len(resp.all_chunks) = 3
    /\ Len(resp.batches) = 2
    /\ Len(ChunksOfDocument(1)) = 1
    /\ resp.all_chunks[1].embedding # resp.all_chunks[2].embedding

-----------------------------------------------------------------------------
\* Properties of the chunker

ChunkTextReturned == pc = "returned" /\ req.op = "chunk_text"

\* C18: no chunk the chunker returns, and no chunk the ingestion emits, has a
\* cleaned text of MIN_CHUNK_LENGTH_TO_EMBED characters or fewer; none is
\* empty.
C18_MinimumLength ==
    /\ (ChunkTextReturned /\ resp.status = "ok") =>
          \A k \in 1..Len(resp.chunks) :
              JoinedLen(resp.chunks[k]) > MIN_CHUNK_LENGTH_TO_EMBED
    /\ (IngestReturned /\ resp.status = "ok") =>
          \A k \in 1..Len(resp.all_chunks) :
              JoinedLen(resp.all_chunks[k].text) > MIN_CHUNK_LENGTH_TO_EMBED

\* The chunks the chunker makes of the text when no cap stops it
Uncapped ==
    chunk_text_pysbd_cap(req.segments, req.target_tokens, MAX_TOKENS,
                         Len(req.segments) + 2).chunks

\* C19: for a text that would be cut into more than max_num_chunks chunks the
\* chunker returns exactly max_num_chunks chunks, the chunk under construction
\* being discarded.
C19_CapRespected ==
    (ChunkTextReturned /\ resp.status = "ok"
        /\ Len(Uncapped) > req.max_num_chunks) =>
        Len(resp.chunks) = req.max_num_chunks

\* C20: every chunk the sentence-boundary chunker returns, except the last,
\* has a token count of at most target_tokens + target_tokens / 2.
C20_BoundedSize ==
    (ChunkTextReturned /\ resp.status = "ok") =>
        \A k \in 1..(Len(resp.chunks) - 1) :
            2 * resp.token_counts[k] <= 3 * req.target_tokens

\* The number of segments a chunk repeats from the chunk closed before it
OverlapOf(closed) == Min(Len(closed), IF Len(closed) > 10 THEN 2 ELSE 1)

\* The segments of chunks[k..] without those each repeats from the chunk
\* before it, one after the other
RECURSIVE WithoutOverlap(_, _)
WithoutOverlap(chunks, k) ==
    IF k > Len(chunks) THEN <<>>
    ELSE (IF k = 1 THEN chunks[k]
          ELSE SubSeq(chunks[k], OverlapOf(chunks[k - 1]) + 1, Len(chunks[k])))
         \o WithoutOverlap(chunks, k + 1)

\* C21: for a text under the chunk cap the chunks, each after the first
\* without the segments it repeats from the chunk before it, make up the
\* sentence sequence of the text, none dropped or out of order, and the
\* last chunk is emitted, ending with the last sentence, whatever its size.
C21_Coverage ==
    (ChunkTextReturned /\ resp.status = "ok"
        /\ Len(Uncapped) <= req.max_num_chunks) =>
        /\ WithoutOverlap(resp.chunks, 1) = req.segments
        /\ \A k \in 2..Len(resp.chunks) :
              SubSeq(resp.chunks[k], 1, OverlapOf(resp.chunks[k - 1]))
                  = LastN(resp.chunks[k - 1], OverlapOf(resp.chunks[k - 1]))
        /\ resp.chunks # <<>>
        /\ resp.chunks[Len(resp.chunks)][Len(resp.chunks[Len(resp.chunks)])]
              = req.segments[Len(req.segments)]

\* A text was cut into three chunks, the second repeating two sentences of
\* the first, and the last chunk is below the target size
C21_Witness ==
    /\ ChunkTextReturned
    /\ resp.status = "ok"
    /\ Len(resp.chunks) = 3
    /\ Len(resp.chunks[1]) > 10
    /\ Len(WithoutOverlap(resp.chunks, 1)) = Len(req.segments)
    /\ resp.token_counts[3] < req.target_tokens

\* The number of segments the chunker took before it closed chunk k
TakenBefore(chunks, k) == Len(WithoutOverlap(SubSeq(chunks, 1, k), 1))

\* The segments of chunk k that joined it under the look-ahead test: all but
\* those repeated from the chunk before and the segment that closed that chunk
TestedFrom(chunks, k) == IF k = 1 THEN 1 ELSE OverlapOf(chunks[k - 1]) + 2

CsvChunksReturned == pc = "returned" /\ req.op = "csv_chunks"

CeilDiv(a, b) == (a + b - 1) \div b

\* The number of pieces a record is meant to be cut into
PiecesOf(record, max_tokens, chunk_size) ==
    IF record.tok > chunk_size THEN CeilDiv(record.tok, max_tokens) ELSE 1

\* C22: the tabular chunker emits a record within the token budget as one
\* chunk and cuts a record of N tokens and C characters above it into
\* ceil(N / max_tokens) pieces of at most max_tokens / (N / C) characters
\* each, which together have the record's C characters.
C22_ProportionalSplit ==
    CsvChunksReturned =>
        /\ Len(resp.chunks)
              = SumSeq([i \in 1..Len(req.records) |->
                          PiecesOf(req.records[i], req.max_tokens, req.chunk_size)])
        /\ Len(req.records) = 1 =>
              /\ req.records[1].tok <= req.chunk_size => resp.chunks = req.records
              /\ req.records[1].tok > req.chunk_size =>
                    \A k \in 1..Len(resp.chunks) :
                        resp.chunks[k].len * req.records[1].tok
                            <= req.max_tokens * req.records[1].len
              /\ SumSeq([k \in 1..Len(resp.chunks) |-> resp.chunks[k].len])
                    = req.records[1].len

\* C23: the chunker completes on every text; a segment of at most MAX_TOKENS
\* tokens is kept whole in a chunk (for a text under the chunk cap), a longer
\* one being replaced by its pieces.
C23_LongSegmentSplit ==
    ChunkTextReturned =>
        /\ resp.status = "ok"
        /\ Len(Uncapped) <= req.max_num_chunks =>
              \A i \in 1..Len(req.segments) :
                  req.segments[i].tok <= MAX_TOKENS =>
                      \E k \in 1..Len(resp.chunks) :
                          req.segments[i] \in Range(resp.chunks[k])

\* C24: ingestion does not fail when the sentence-boundary chunker does: it
\* returns chunks for every document with a non-blank text.
C24_FallbackOnFailure ==
    IngestReturned =>
        /\ resp.status = "ok"
        /\ \A i \in 1..Len(req.documents) :
              req.documents[i].text # <<>> =>
                  \E k \in 1..Len(resp.all_chunks) :
                      resp.all_chunks[k].metadata.document_id = req.documents[i].id

-----------------------------------------------------------------------------
\* Further properties of delete and upsert

\* C26: a delete whose delete_all is not true, whose filter is absent or sets
\* no field and whose ids are absent or empty returns True, makes no backend
\* call and leaves the store as it was.
C26_NoCriteriaNoOp ==
    (DeleteReturned /\ handle /\ NoCriteria) =>
        /\ resp.status = "ok"
        /\ resp.success
        /\ resp.calls = <<>>
        /\ store = resp.before

\* A delete with a filter that sets no field and an empty list of ids
\* returned True on a store that holds chunks
C26_Witness ==
    /\ DeleteReturned
    /\ handle
    /\ req.filter = Some(NoFilter)
    /\ req.ids = Some(<<>>)
    /\ req.delete_all # Some(TRUE)
    /\ resp.status = "ok"
    /\ store # <<>>
    /\ store = resp.before

\* The document ids of the batch whose delete ran to its end
DeletedIds ==
    {req.documents[j].id : j \in DeleteTasks(req.documents) \ resp.delete_failed}

\* C27: an upsert that raises (no usable content, a failed delete, a failed
\* chunker or embedding call) has inserted no chunk and has not undone its
\* deletes: the store is the one it found without the chunks of every
\* non-empty document id of the batch whose delete ran.
C27_DeletesNotUndone ==
    (UpsertReturned /\ resp.status # "ok") =>
        /\ resp.ids = <<>>
        /\ store = SelectSeq(resp.before,
                             LAMBDA e : \A D \in DeletedIds :
                                            e.metadata.document_id # Some(D))
        /\ \A D \in DeletedIds : ChunksOf(store, D) = <<>>

\* An upsert raised the no-usable-content error after it had deleted the
\* stored chunks of its document, and left chunks of another document
C27_Witness ==
    /\ UpsertReturned
    /\ resp.status = "ValueError"
    /\ resp.error = "No useable content found in documents"
    /\ resp.delete_failed = {}
    /\ Len(store) < Len(resp.before)
    /\ store # <<>>

\* The document ids that two or more documents of the batch carry
RepeatedIds(documents) ==
    {D \in BatchIds(documents) :
        Cardinality({i \in 1..Len(documents) : documents[i].id = D}) >= 2}

\* <<chunk id, text>> of the chunks of every document of documents[i..]
RECURSIVE ChunkedAll(_, _)
ChunkedAll(documents, i) ==
    IF i > Len(documents) THEN <<>>
    ELSE ChunkedAs(create_document_chunks(documents[i], CHUNK_SIZE).chunks)
         \o ChunkedAll(documents, i + 1)

\* The chunk ids D_0 .. D_{n-1}
DenseIds(D, n) == [k \in 1..n |-> ChunkId(D, k - 1)]

StoredIds(coll) == [k \in 1..Len(coll) |-> Val(coll[k].metadata.doc_chunk_id)]

\* What a successful upsert makes of an id that several documents carry: the
\* chunks of all of them are embedded, the call adds the chunks of the last
\* one alone and returns the id once
LastDocumentWins(D) ==
    /\ resp.embedded = ChunkedAll(req.documents, 1)
    /\ StoredAs(ChunksOf(AddedEntries, D)) = IngestedOf(req.documents, D)
    /\ Cardinality({k \in 1..Len(resp.ids) : resp.ids[k] = D}) = 1

\* C29 as stated: for every id that two or more documents of a batch carry,
\* the chunks of all of them are embedded, the chunks of the last one alone
\* are stored under the id, the id is returned once, and the chunk ids stored
\* for it are D_0 .. D_{n-1} without duplicate.
C29_DuplicateIdsAnyId ==
    (UpsertReturned /\ resp.status = "ok") =>
        \A D \in RepeatedIds(req.documents) :
            /\ LastDocumentWins(D)
            /\ StoredAs(ChunksOf(store, D)) = IngestedOf(req.documents, D)
            /\ StoredIds(ChunksOf(store, D)) = DenseIds(D, Len(ChunksOf(store, D)))

\* C29: for every id that two or more documents of a batch carry, the chunks
\* of all of them are embedded, the call stores the chunks of the last one
\* alone and returns the id once; when the id is not empty these are the only
\* chunks stored for it, with the chunk ids D_0 .. D_{n-1} without duplicate
\* (the chunks stored earlier under the empty id stay).
C29_DuplicateIds ==
    (UpsertReturned /\ resp.status = "ok") =>
        \A D \in RepeatedIds(req.documents) :
            /\ LastDocumentWins(D)
            /\ D # "" =>
                  /\ StoredAs(ChunksOf(store, D)) = IngestedOf(req.documents, D)
                  /\ StoredIds(ChunksOf(store, D))
                        = DenseIds(D, Len(ChunksOf(store, D)))

\* A batch of two documents with the same non-empty id and different texts
\* was stored: three chunks were embedded, the one of the last document is
\* stored
C29_Witness ==
    /\ UpsertReturned
    /\ resp.status = "ok"
    /\ Len(req.documents) = 2
    /\ req.documents[1].id = req.documents[2].id
    /\ req.documents[1].id # ""
    /\ req.documents[1].text # req.documents[2].text
    /\ Len(resp.embedded) = 3
    /\ Len(ChunksOf(store, req.documents[1].id)) = 1
    /\ resp.ids = <<req.documents[1].id>>

-----------------------------------------------------------------------------
\* Properties of the token-window chunker

InLoop == pc = "loop" /\ req.op = "get_text_chunks"

GetTextChunksReturned == pc = "returned" /\ req.op = "get_text_chunks"

\* The window of an iteration and the text it decodes to
WindowOf(f) == slice_to(f.tokens, f.chunk_size)

BlankWindow(f) == decode(WindowOf(f)) = <<>> \/ isspace(decode(WindowOf(f)))

\* The texts an iteration may consume: the window's text or the window's text
\* cut after one of its punctuation marks
CutsOf(text) ==
    {text} \cup {SubSeq(text, 1, i) :
                    i \in {j \in DOMAIN text : text[j] \in {".", "?", "!", "\n"}}}

\* C28: with a chunk size of at least 1 a call of the token-window chunker on
\* a non-empty text returns; every iteration leaves fewer remaining tokens: an
\* iteration on a whitespace-only window drops the window and does not count,
\* any other iteration drops as many tokens as its possibly cut text encodes
\* to and counts once; the count never exceeds max_num_chunks.
C28_Terminates ==
    /\ [][(InLoop /\ pc' = "loop" /\ frame.chunk_size >= 1) =>
            /\ Len(frame'.tokens) < Len(frame.tokens)
            /\ IF BlankWindow(frame)
               THEN /\ frame'.tokens
                         = slice_from(frame.tokens, Len(WindowOf(frame)))
                    /\ frame'.num_chunks = frame.num_chunks
               ELSE /\ \E cut \in CutsOf(decode(WindowOf(frame))) :
                         Len(frame'.tokens)
                           = max_of({0, Len(frame.tokens) - Len(encode(cut))})
                    /\ frame'.num_chunks = frame.num_chunks + 1]_vars
    /\ [](InLoop => frame.num_chunks <= req.max_num_chunks)
    /\ ((pc = "called" /\ req.op = "get_text_chunks" /\ req.text # <<>>
            /\ chunk_size_of(req.chunk_token_size) >= 1)
          ~> GetTextChunksReturned)

\* a call that skipped a whitespace-only window, counted two windows and
\* stopped at the cap with a token left
C28_Witness ==
    /\ GetTextChunksReturned
    /\ req.text = <<" ", "a", ".", " ">>
    /\ req.chunk_token_size = Some(1)
    /\ resp.num_chunks = req.max_num_chunks

-----------------------------------------------------------------------------
\* Properties of the OAuth proxy

CallbackReturned ==
    pc = "returned" /\ req.op = "callback" /\ Len(req.url) >= 2

\* An /authorize request that carried the configured client_id
ValidClient(q) == q.client_id = <<oauth_config.client_id>>

\* The redirect_uri a request carried, empty when it carried none
RedirectUriOf(q) == IF q.redirect_uri = <<>> THEN "" ELSE q.redirect_uri[1]

RECURSIVE MostRecent(_, _)
MostRecent(log, i) ==
    IF i = 0 THEN ""
    ELSE IF ValidClient(log[i]) THEN RedirectUriOf(log[i])
    ELSE MostRecent(log, i - 1)

\* C30: after any sequence of requests /oauth/callback redirects to the
\* redirect_uri of the most recent /authorize request that carried a valid
\* client_id, also when that request was rejected for its prefix or belongs to
\* another login flow, and to the empty URI before any such request.
C30_CallbackTarget ==
    CallbackReturned =>
        /\ resp.status_code = 307
        /\ resp.location = <<MostRecent(requests, Len(requests)), req.url[2]>>

====
